---- MODULE Spec2Model ----
(***************************************************************************)
(* Layout and validation engine of sophie-baby-diary.                      *)
(*                                                                         *)
(* Each behaviour exercises one entry point of the program (op): its       *)
(* inputs and the files it reads are fixed by Init, its steps are the      *)
(* actions.  Python floats are modelled as exact rationals (records        *)
(* [n, d] in lowest terms, d > 0): the arithmetic is the code's, the       *)
(* binary64 rounding of each operation is not represented.                 *)
(***************************************************************************)
EXTENDS Integers, Sequences, FiniteSets

VARIABLES
    op,             \* the entry point this behaviour runs
    pc,             \* its position: "start", "loop", "returned", "raised"
    args,           \* its arguments
    ret,            \* what it returned, or the exception it raised
    detection_json, \* the detection JSON file create_layout reads
    image_dir,      \* the candidate image directory create_layout scans
    pdf,            \* the PDF detect_placeholders_in_pdf rasterizes
    detector_out,   \* what detector.detect returns for each page
    page_i,         \* detect_placeholders_in_pdf: index of the page in the loop
    results,        \* detect_placeholders_in_pdf: the results list
    detections,     \* detections/{book_id}/page_NNNN.json, by page number
    runs,           \* the render_pdf calls in progress, by worker
    disk,           \* the files render_pdf reads and writes
    cli             \* the command of cli.py in progress

vars == <<op, pc, args, ret, detection_json, image_dir, pdf, detector_out,
          page_i, results, detections, runs, disk, cli>>

----------------------------------------------------------------------------
\* Bounds of the model.

MaxSrc == 4
MaxTgt == 4
MaxTgtDen == 2
MaxPlaceholders == 3
MaxStem == 2
MaxPages == 3
MaxBox == 2
MaxBatch == 2
MaxList == 3

----------------------------------------------------------------------------
\* Python float arithmetic, as exact rationals.

Abs(x) == IF x < 0 THEN -x ELSE x

RECURSIVE GCD(_, _)
GCD(a, b) == IF b = 0 THEN a ELSE GCD(b, a % b)

\* The rational n/d (d # 0) in lowest terms with a positive denominator.
Rat(n, d) ==
    LET s == IF d < 0 THEN -1 ELSE 1
        g == GCD(Abs(n), Abs(d))
    IN  [n |-> (s * n) \div g, d |-> (s * d) \div g]

FromInt(i) == [n |-> i, d |-> 1]

RatAdd(a, b) == Rat(a.n * b.d + b.n * a.d, a.d * b.d)
RatSub(a, b) == Rat(a.n * b.d - b.n * a.d, a.d * b.d)
RatMul(a, b) == Rat(a.n * b.n, a.d * b.d)
\* a / b for b # 0 (Python raises ZeroDivisionError for b = 0: the callers
\* test for it before dividing).
RatDiv(a, b) == Rat(a.n * b.d, a.d * b.n)
RatLT(a, b) == a.n * b.d < b.n * a.d
RatLE(a, b) == a.n * b.d <= b.n * a.d
\* max(a, b) and min(a, b) of Python: the first argument on a tie.
RatMax(a, b) == IF RatLT(a, b) THEN b ELSE a
RatMin(a, b) == IF RatLT(b, a) THEN b ELSE a
\* int(x): truncation toward zero.
RatTrunc(a) == IF a.n >= 0 THEN a.n \div a.d ELSE -((-a.n) \div a.d)
\* floor(x), as the specification writes it.
RatFloor(a) == a.n \div a.d

----------------------------------------------------------------------------
\* Python float with its rounding: IEEE 754 binary64, every operation rounded
\* to nearest, ties to even. A positive float is m * 2^e with
\* 2^52 <= m < 2^53; m is held as ten digits in base 2^13, the least
\* significant first (TLC's integers have 32 bits). The exponent range
\* (overflow, subnormal numbers) is not modelled: the values of the
\* behaviours stay far inside it.

Base == 2 ^ 13

\* The element of a set of one element.
The(S) == CHOOSE v \in S : TRUE

\* F applied k times to v: the first half of the steps and then the rest,
\* on the value the first half gave.
RECURSIVE Iterate(_, _, _)
Iterate(F(_), v, k) ==
    IF k = 0 THEN v
    ELSE IF k = 1 THEN F(v)
    ELSE The({Iterate(F, w, k - k \div 2) : w \in {Iterate(F, v, k \div 2)}})

\* The number with the digits F(1), ..., F(10).
Digits(F(_)) == <<F(1), F(2), F(3), F(4), F(5), F(6), F(7), F(8), F(9), F(10)>>

BigZero == <<0, 0, 0, 0, 0, 0, 0, 0, 0, 0>>
Limbs == Len(BigZero)

\* The digits of an integer 0 <= n < 2^31.
Big(n) == <<n % Base, (n \div Base) % Base, n \div (Base * Base), 0, 0, 0, 0, 0, 0, 0>>

\* Brings every digit into 0 .. Base - 1, the carry (or borrow) going up:
\* t is the digits, the position and the carry into it.
CarryStep(t) ==
    <<[t[1] EXCEPT ![t[2]] = (t[1][t[2]] + t[3]) % Base],
      t[2] + 1,
      (t[1][t[2]] + t[3]) \div Base>>

Carry(s) == Iterate(CarryStep, <<s, 1, 0>>, Limbs)[1]

BigAdd(a, b) == LET D(i) == a[i] + b[i] IN Carry(Digits(D))
\* a - b for a >= b
BigSub(a, b) == LET D(i) == a[i] - b[i] IN Carry(Digits(D))
BigDouble(a) == LET D(i) == 2 * a[i] IN Carry(Digits(D))
BigLT(a, b) ==
    \E i \in 1 .. Limbs : a[i] < b[i] /\ \A j \in (i + 1) .. Limbs : a[j] = b[j]

\* The sum of a[j] * b[i - j + 1] for j = 1 .. k: column i of the product.
RECURSIVE Column(_, _, _, _)
Column(a, b, i, k) ==
    IF k = 0 THEN 0 ELSE a[k] * b[i - k + 1] + Column(a, b, i, k - 1)

\* a * b for a, b < 2^53
BigMul(a, b) == LET D(i) == Column(a, b, i, i) IN Carry(Digits(D))

\* 2^52 and 2^53: 52 = 4 * 13.
Two52 == <<0, 0, 0, 0, 1, 0, 0, 0, 0, 0>>
Two53 == <<0, 0, 0, 0, 2, 0, 0, 0, 0, 0>>

FloatZero == [m |-> BigZero, e |-> 0]

\* One step towards d <= n < 2 d for t = <<n, d, k>>, n/d * 2^k unchanged.
ScaleStep(t) ==
    IF BigLT(t[1], t[2]) THEN <<BigDouble(t[1]), t[2], t[3] - 1>>
    ELSE IF ~BigLT(t[1], BigDouble(t[2])) THEN <<t[1], BigDouble(t[2]), t[3] + 1>>
    ELSE t

\* n, d, k with n/d * 2^k unchanged and d <= n < 2 d, for 0 < n, d < 2^106.
Scale(n, d) == Iterate(ScaleStep, <<n, d, 0>>, 106)

\* Long division by t[3], one binary digit: t[1] is the quotient and t[2]
\* the remainder so far.
QuotientStep(t) ==
    IF BigLT(BigDouble(t[2]), t[3])
    THEN <<BigDouble(t[1]), BigDouble(t[2]), t[3]>>
    ELSE <<BigAdd(BigDouble(t[1]), Big(1)), BigSub(BigDouble(t[2]), t[3]), t[3]>>

\* The float q * 2^e rounded by the remainder r of the division by d: up
\* when 2 r > d, to the even significand when 2 r = d.
Nearest(q, r, d, e) ==
    LET up == BigLT(d, BigDouble(r)) \/ (BigDouble(r) = d /\ q[1] % 2 = 1)
        m == IF up THEN BigAdd(q, Big(1)) ELSE q
    IN  IF m = Two53 THEN [m |-> Two52, e |-> e + 1] ELSE [m |-> m, e |-> e]

\* The float nearest to n/d * 2^e (d > 0), ties to the even significand.
Round(n, d, e) ==
    IF n = BigZero THEN FloatZero
    ELSE The({The({Nearest(t[1], t[2], s[2], e + s[3] - 52)
                     : t \in {Iterate(QuotientStep,
                                      <<Big(1), BigSub(s[1], s[2]), s[2]>>, 52)}})
                : s \in {Scale(n, d)}})

\* float(r) for a rational r >= 0 with numerator and denominator below
\* 2^31: the float an int or a decimal literal denotes.
ToFloat(r) == Round(Big(r.n), Big(r.d), 0)

\* a * b and a / b (b # 0) of floats a, b >= 0; x and y are the values of
\* the operands, evaluated once.
FloatMul(fa, fb) ==
    The({Round(BigMul(x.m, y.m), Big(1), x.e + y.e) : x \in {fa}, y \in {fb}})
FloatDiv(fa, fb) ==
    The({Round(x.m, y.m, x.e - y.e) : x \in {fa}, y \in {fb}})

----------------------------------------------------------------------------
\* layout.calculate_transform

Raise(error, detail) == [kind |-> "raise", error |-> error, detail |-> detail]

Transform(scale_factor, crop_rect_px) ==
    [kind |-> "Transform", scale_factor |-> scale_factor,
     crop_rect_px |-> crop_rect_px]

\* scale_factor = min(scale_x, scale_y): a fill that does not cover.
ScaleFillMin(scale_x, scale_y) == RatMin(scale_x, scale_y)

\* fill: scale_factor = max(scale_x, scale_y)
ScaleFill(scale_x, scale_y) == RatMax(scale_x, scale_y)

\* scale_factor = max(scale_x, scale_y): a fit that overflows.
ScaleFitMax(scale_x, scale_y) == RatMax(scale_x, scale_y)

\* fit: scale_factor = min(scale_x, scale_y)
ScaleFit(scale_x, scale_y) == RatMin(scale_x, scale_y)

\* crop size rounded up instead of truncated.
CropSizeCeil(target_px, scale_factor) ==
    -RatFloor(RatSub(FromInt(0), RatDiv(target_px, scale_factor)))

\* crop_width = int(target_width_px / scale_factor), for scale_factor # 0
CropSize(target_px, scale_factor) == RatTrunc(RatDiv(target_px, scale_factor))

\* A crop aligned with the right and bottom edges of the source.
CropOriginFarEdge(source_px, crop_size) == source_px - crop_size

\* crop_x_source = int((source_width_px - crop_width) / 2)
CropOrigin(source_px, crop_size) == RatTrunc(Rat(source_px - crop_size, 2))

calculate_transform(source_width_px, source_height_px, target_width_px, target_height_px, mode) ==
    IF mode = "fill" THEN
        IF source_width_px = 0 \/ source_height_px = 0
        THEN Raise("ZeroDivisionError", "division by zero")
        ELSE
            LET scale_x == RatDiv(target_width_px, FromInt(source_width_px))
                scale_y == RatDiv(target_height_px, FromInt(source_height_px))
                scale_factor == ScaleFill(scale_x, scale_y)
            IN  IF scale_factor.n = 0
                THEN Raise("ZeroDivisionError", "division by zero")
                ELSE
                    LET crop_width == CropSize(target_width_px, scale_factor)
                        crop_height == CropSize(target_height_px, scale_factor)
                    IN  Transform(scale_factor,
                            [x |-> CropOrigin(source_width_px, crop_width),
                             y |-> CropOrigin(source_height_px, crop_height),
                             width |-> crop_width,
                             height |-> crop_height])
    ELSE IF mode = "fit" THEN
        IF source_width_px = 0 \/ source_height_px = 0
        THEN Raise("ZeroDivisionError", "division by zero")
        ELSE
            LET scale_x == RatDiv(target_width_px, FromInt(source_width_px))
                scale_y == RatDiv(target_height_px, FromInt(source_height_px))
            IN  Transform(ScaleFit(scale_x, scale_y),
                    [x |-> 0, y |-> 0,
                     width |-> source_width_px, height |-> source_height_px])
    ELSE Raise("ValueError", <<"Unsupported scaling mode", mode>>)

----------------------------------------------------------------------------
\* Inputs of calculate_transform.

ScalingModes == {"fill", "fit", "center_crop", "stretch"}

SourceDims == -1 .. MaxSrc

TargetDims == {Rat(n, d) : n \in -1 .. MaxTgt, d \in 1 .. MaxTgtDen}

\* The worked examples: 800x600 into 400x400 (fill) and into 400x200 (fit).
ExampleTransformArgs ==
    {[source_width_px |-> 800, source_height_px |-> 600,
      target_width_px |-> FromInt(400), target_height_px |-> FromInt(th),
      mode |-> m] : th \in {400, 200}, m \in {"fill", "fit"}}

TransformArgs ==
    [source_width_px : SourceDims, source_height_px : SourceDims,
     target_width_px : TargetDims, target_height_px : TargetDims,
     mode : ScalingModes]
    \cup ExampleTransformArgs

NoRet == [kind |-> "none"]

\* No render_pdf call, no file of the renderer, no command of cli.py.
NoDisk == [kind |-> "none"]
NoCli == [kind |-> "none"]

InitTransform ==
    /\ op = "calculate_transform"
    /\ pc = "start"
    /\ args \in TransformArgs
    /\ ret = NoRet
    /\ runs = <<>>
    /\ disk = NoDisk
    /\ cli = NoCli
    /\ detection_json = [kind |-> "missing"]
    /\ image_dir = [exists |-> FALSE, files |-> {}, unreadable |-> {}]
    /\ pdf = [kind |-> "missing"]
    /\ detector_out = <<>>
    /\ page_i = 0
    /\ results = <<>>
    /\ detections = <<>>

CallCalculateTransform ==
    /\ op = "calculate_transform"
    /\ pc = "start"
    /\ ret' = calculate_transform(args.source_width_px, args.source_height_px,
                                  args.target_width_px, args.target_height_px,
                                  args.mode)
    /\ pc' = IF ret'.kind = "raise" THEN "raised" ELSE "returned"
    /\ UNCHANGED <<runs, disk, cli>>
    /\ UNCHANGED <<op, args, detection_json, image_dir, pdf, detector_out,
                   page_i, results, detections>>

----------------------------------------------------------------------------
\* config.py

SCAN_DPI == 600
PRINT_DPI == 300
MAX_PLACEHOLDERS_PER_PAGE == 6

----------------------------------------------------------------------------
\* coordinates.py

\* px_to_mm: (px / dpi) * 25.4
px_to_mm(px, dpi) == RatMul(RatDiv(px, FromInt(dpi)), Rat(254, 10))

\* mm_to_px: (mm / 25.4) * dpi
mm_to_px(mm, dpi) == RatMul(RatDiv(mm, Rat(254, 10)), FromInt(dpi))

\* px_to_mm with the rounding of each operation: px / dpi, then * 25.4.
px_to_mm_binary64(px, dpi) ==
    FloatMul(FloatDiv(px, ToFloat(FromInt(dpi))), ToFloat(Rat(254, 10)))

\* mm_to_px with 1 inch taken as 25 mm.
mm_to_px_inch_25(mm, dpi) ==
    FloatMul(FloatDiv(mm, ToFloat(FromInt(25))), ToFloat(FromInt(dpi)))

\* mm_to_px dividing by the resolution.
mm_to_px_per_dpi(mm, dpi) ==
    FloatDiv(FloatDiv(mm, ToFloat(Rat(254, 10))), ToFloat(FromInt(dpi)))

\* mm_to_px with the rounding of each operation: mm / 25.4, then * dpi.
mm_to_px_binary64(mm, dpi) ==
    FloatMul(FloatDiv(mm, ToFloat(Rat(254, 10))), ToFloat(FromInt(dpi)))

----------------------------------------------------------------------------
\* validation.py: the Pydantic models.

BBoxMM(x, y, width, height) ==
    [x |-> x, y |-> y, width |-> width, height |-> height]

\* BBoxMM: x >= 0, y >= 0, width > 0, height > 0
BBoxMMValid(b) ==
    /\ b.x.n >= 0
    /\ b.y.n >= 0
    /\ b.width.n > 0
    /\ b.height.n > 0

Placeholder(id, bbox_mm, confidence) ==
    [id |-> id, bbox_mm |-> bbox_mm, detection_method |-> "manual",
     confidence |-> confidence]

\* Placeholder: a valid box and 0 <= confidence <= 1
PlaceholderValid(p) ==
    /\ BBoxMMValid(p.bbox_mm)
    /\ RatLE(FromInt(0), p.confidence)
    /\ RatLE(p.confidence, FromInt(1))

\* check_count with the limit off by one.
check_count_off_by_one(v) == Len(v) <= MAX_PLACEHOLDERS_PER_PAGE + 1

\* DetectionOutput.check_count: raises for more than the maximum only.
check_count(v) == Len(v) <= MAX_PLACEHOLDERS_PER_PAGE

\* The timestamps datetime.fromisoformat accepts, among those modelled.
ISOTimestamps == {"2025-01-15T10:30:00"}

Timestamps == ISOTimestamps \cup {"not-a-timestamp"}

\* DetectionOutput.check_timestamp_format
check_timestamp_format(v) == v \in ISOTimestamps

\* Whether DetectionOutput(**data) constructs (no ValidationError).
DetectionOutputValid(data) ==
    /\ data.page >= 1
    /\ data.scan_dpi > 0
    /\ \A i \in 1 .. Len(data.placeholders) : PlaceholderValid(data.placeholders[i])
    /\ check_count(data.placeholders)
    /\ check_timestamp_format(data.detected_at)

DetectionOutput(page, book_id, scan_dpi, page_size_mm, placeholders, validation_passed, detected_at) ==
    [schema_version |-> "1.0.0", page |-> page, book_id |-> book_id,
     scan_dpi |-> scan_dpi, page_size_mm |-> page_size_mm,
     coordinate_system |-> "top_left_mm", placeholders |-> placeholders,
     validation_passed |-> validation_passed, detected_at |-> detected_at]

----------------------------------------------------------------------------
\* Placeholders and detection records the behaviours draw from.

PlaceholderIds ==
    <<"page_001_ph_01", "page_001_ph_02", "page_001_ph_03", "page_001_ph_04",
      "page_001_ph_05", "page_001_ph_06", "page_001_ph_07", "page_001_ph_08">>

\* The i-th placeholder of a page: side by side, 20 mm wide (the odd ones
\* 20.5 mm), all inside an A4 page and disjoint.
PlaceholderAt(i) ==
    Placeholder(PlaceholderIds[i],
                BBoxMM(FromInt(5 + 25 * (i - 1)), FromInt(40),
                       Rat(40 + (i % 2), 2), FromInt(10 + 10 * i)),
                FromInt(1))

\* Sequences without repetition of the first MaxPlaceholders placeholders.
PlaceholderLists ==
    UNION {{s \in [1 .. k -> {PlaceholderAt(i) : i \in 1 .. MaxPlaceholders}] :
               \A a, b \in 1 .. k : a # b => s[a] # s[b]}
           : k \in 0 .. MaxPlaceholders}

\* One placeholder more than a record may hold.
OverfullList == [i \in 1 .. MAX_PLACEHOLDERS_PER_PAGE + 1 |-> PlaceholderAt(i)]

A4PageSizeMM == [width |-> FromInt(210), height |-> FromInt(297)]

\* Contents of a detection JSON file: records that satisfy the schema, and
\* records that violate it (too many placeholders, page 0, bad timestamp).
DetectionData ==
    {DetectionOutput(1, "test_book", SCAN_DPI, A4PageSizeMM, phs, vp,
                     "2025-01-15T10:30:00")
       : phs \in PlaceholderLists, vp \in BOOLEAN}
    \cup
    {DetectionOutput(1, "test_book", SCAN_DPI, A4PageSizeMM, OverfullList, TRUE,
                     "2025-01-15T10:30:00"),
     DetectionOutput(0, "test_book", SCAN_DPI, A4PageSizeMM, <<PlaceholderAt(1)>>,
                     TRUE, "2025-01-15T10:30:00"),
     DetectionOutput(1, "test_book", SCAN_DPI, A4PageSizeMM, <<PlaceholderAt(1)>>,
                     TRUE, "not-a-timestamp")}

DetectionFiles ==
    {[kind |-> "missing"], [kind |-> "invalid_json"]}
    \cup {[kind |-> "json", data |-> d] : d \in DetectionData}

----------------------------------------------------------------------------
\* The candidate image directory.

\* File name extensions, in the order of the strings.
Extensions == <<"jpeg", "jpg", "png">>

\* A file "<stem>.<ext>" of the directory; the stem is one letter, its rank
\* in the alphabet is stem.
FileNames == [stem : 1 .. MaxStem, ext : {1, 2, 3}]

Ext(f) == Extensions[f.ext]

\* Path.__lt__ on two files of one directory: the order of the name strings.
PathLT(f, g) == f.stem < g.stem \/ (f.stem = g.stem /\ f.ext < g.ext)

\* Pixel size of the image a file holds.
ImageSizes == <<<<800, 600>>, <<600, 800>>, <<1000, 1000>>>>

ImageSize(f) == ImageSizes[((f.stem + f.ext) % 3) + 1]

\* Path(image_dir).glob("*.<ext>"): nothing for a directory that does not exist.
\* A glob whose pattern matches every file of the directory.
glob_every_file(dir, ext) == IF dir.exists THEN dir.files ELSE {}

glob(dir, ext) == IF dir.exists THEN {f \in dir.files : Ext(f) = ext} ELSE {}

\* Descending order.
RECURSIVE sorted_descending(_)
sorted_descending(S) ==
    IF S = {} THEN <<>>
    ELSE LET m == CHOOSE f \in S : \A g \in S : g = f \/ PathLT(g, f)
         IN  <<m>> \o sorted_descending(S \ {m})

\* sorted(...): ascending by path.
RECURSIVE sorted(_)
sorted(S) ==
    IF S = {} THEN <<>>
    ELSE LET m == CHOOSE f \in S : \A g \in S : g = f \/ PathLT(f, g)
         IN  <<m>> \o sorted(S \ {m})

ImageDirs ==
    {[exists |-> FALSE, files |-> {}, unreadable |-> {}]}
    \cup
    UNION {{[exists |-> TRUE, files |-> fs, unreadable |-> u]
              : u \in {{}} \cup {{f} : f \in {g \in fs : g.stem = 1 /\ g.ext = 2}}}
           : fs \in SUBSET FileNames}

----------------------------------------------------------------------------
\* layout.create_layout

PositionedImage(placeholder_id, source_image, target_bbox_mm, scaling_mode, transform) ==
    [placeholder_id |-> placeholder_id, source_image |-> source_image,
     target_bbox_mm |-> target_bbox_mm, scaling_mode |-> scaling_mode,
     transform |-> transform]

LayoutOutput(page, book_id, positioned_images) ==
    [kind |-> "LayoutOutput", schema_version |-> "1.0.0", page |-> page,
     book_id |-> book_id, positioned_images |-> positioned_images]

\* The loop over enumerate(detection.placeholders), from index i on (1-based):
\* the list of positioned images, or the exception that ends the loop.
RECURSIVE layout_loop(_, _, _, _, _, _, _)
layout_loop(placeholders, image_files, unreadable, scaling_mode, print_dpi, i, positioned_images) ==
    IF i > Len(placeholders) \/ i > Len(image_files)
    THEN [kind |-> "list", items |-> positioned_images]
    ELSE
        LET placeholder == placeholders[i]
            image_file == image_files[i]
            bbox_mm == placeholder.bbox_mm
        IN  IF image_file \in unreadable
            THEN Raise("UnidentifiedImageError", image_file)
            ELSE
                LET transform ==
                        calculate_transform(
                            ImageSize(image_file)[1], ImageSize(image_file)[2],
                            mm_to_px(bbox_mm.width, print_dpi),
                            mm_to_px(bbox_mm.height, print_dpi),
                            scaling_mode)
                IN  IF transform.kind = "raise"
                    THEN transform
                    ELSE layout_loop(placeholders, image_files, unreadable,
                             scaling_mode, print_dpi, i + 1,
                             Append(positioned_images,
                                 PositionedImage(placeholder.id, image_file,
                                     [x |-> bbox_mm.x, y |-> bbox_mm.y,
                                      width |-> bbox_mm.width,
                                      height |-> bbox_mm.height],
                                     scaling_mode, transform)))

create_layout(detection_file, dir, scaling_mode, print_dpi) ==
    IF detection_file.kind = "missing"
    THEN Raise("FileNotFoundError", "Detection JSON not found")
    ELSE IF detection_file.kind = "invalid_json"
    THEN Raise("JSONDecodeError", "json.loads")
    ELSE IF ~DetectionOutputValid(detection_file.data)
    THEN Raise("ValidationError", "DetectionOutput")
    ELSE
        LET detection == detection_file.data
            image_files == sorted(glob(dir, "jpg") \cup glob(dir, "jpeg"))
        IN  IF image_files = <<>>
            THEN Raise("ValueError", "No images found")
            ELSE
                LET loop == layout_loop(detection.placeholders, image_files,
                                dir.unreadable, scaling_mode, print_dpi, 1, <<>>)
                IN  IF loop.kind = "raise"
                    THEN loop
                    ELSE LayoutOutput(detection.page, detection.book_id,
                                      loop.items)

InitLayout ==
    /\ op = "create_layout"
    /\ pc = "start"
    /\ args \in [scaling_mode : ScalingModes, print_dpi : {PRINT_DPI}]
    /\ ret = NoRet
    /\ runs = <<>>
    /\ disk = NoDisk
    /\ cli = NoCli
    /\ detection_json \in DetectionFiles
    /\ image_dir \in ImageDirs
    /\ pdf = [kind |-> "missing"]
    /\ detector_out = <<>>
    /\ page_i = 0
    /\ results = <<>>
    /\ detections = <<>>

CallCreateLayout ==
    /\ op = "create_layout"
    /\ pc = "start"
    /\ ret' = create_layout(detection_json, image_dir, args.scaling_mode,
                            args.print_dpi)
    /\ pc' = IF ret'.kind = "raise" THEN "raised" ELSE "returned"
    /\ UNCHANGED <<runs, disk, cli>>
    /\ UNCHANGED <<op, args, detection_json, image_dir, pdf, detector_out,
                   page_i, results, detections>>

----------------------------------------------------------------------------
\* validation.py: geometry checks.

\* calculate_iou with the union taken as the sum of the two areas.
calculate_iou_union_sum(bbox1, bbox2) ==
    LET x1_inter == RatMax(bbox1.x, bbox2.x)
        y1_inter == RatMax(bbox1.y, bbox2.y)
        x2_inter == RatMin(RatAdd(bbox1.x, bbox1.width), RatAdd(bbox2.x, bbox2.width))
        y2_inter == RatMin(RatAdd(bbox1.y, bbox1.height), RatAdd(bbox2.y, bbox2.height))
    IN  IF RatLT(x2_inter, x1_inter) \/ RatLT(y2_inter, y1_inter)
        THEN FromInt(0)
        ELSE RatDiv(RatMul(RatSub(x2_inter, x1_inter), RatSub(y2_inter, y1_inter)),
                    RatAdd(RatMul(bbox1.width, bbox1.height),
                           RatMul(bbox2.width, bbox2.height)))

calculate_iou(bbox1, bbox2) ==
    LET x1_inter == RatMax(bbox1.x, bbox2.x)
        y1_inter == RatMax(bbox1.y, bbox2.y)
        x2_inter == RatMin(RatAdd(bbox1.x, bbox1.width), RatAdd(bbox2.x, bbox2.width))
        y2_inter == RatMin(RatAdd(bbox1.y, bbox1.height), RatAdd(bbox2.y, bbox2.height))
    IN  IF RatLT(x2_inter, x1_inter) \/ RatLT(y2_inter, y1_inter)
        THEN FromInt(0)
        ELSE
            LET intersection_area ==
                    RatMul(RatSub(x2_inter, x1_inter), RatSub(y2_inter, y1_inter))
                area1 == RatMul(bbox1.width, bbox1.height)
                area2 == RatMul(bbox2.width, bbox2.height)
                union_area == RatSub(RatAdd(area1, area2), intersection_area)
            IN  IF RatLT(FromInt(0), union_area)
                THEN RatDiv(intersection_area, union_area)
                ELSE FromInt(0)

\* check_bbox_within_page with the page edges excluded.
check_bbox_within_page_strict(bbox, page_width_mm, page_height_mm) ==
    /\ RatLE(FromInt(0), bbox.x)
    /\ RatLE(FromInt(0), bbox.y)
    /\ RatLT(RatAdd(bbox.x, bbox.width), page_width_mm)
    /\ RatLT(RatAdd(bbox.y, bbox.height), page_height_mm)

check_bbox_within_page(bbox, page_width_mm, page_height_mm) ==
    /\ RatLE(FromInt(0), bbox.x)
    /\ RatLE(FromInt(0), bbox.y)
    /\ RatLE(RatAdd(bbox.x, bbox.width), page_width_mm)
    /\ RatLE(RatAdd(bbox.y, bbox.height), page_height_mm)

\* check_placeholders_overlap that looks at neighbours in the list only.
check_placeholders_overlap_neighbours(placeholders, iou_threshold) ==
    \A i \in 1 .. Len(placeholders) - 1 :
        ~RatLT(iou_threshold,
               calculate_iou(placeholders[i].bbox_mm, placeholders[i + 1].bbox_mm))

\* FALSE as soon as a pair (i, j), i < j, has IoU above the threshold.
check_placeholders_overlap(placeholders, iou_threshold) ==
    \A i \in 1 .. Len(placeholders) :
        \A j \in (i + 1) .. Len(placeholders) :
            ~RatLT(iou_threshold,
                   calculate_iou(placeholders[i].bbox_mm, placeholders[j].bbox_mm))

\* Valid boxes on a half-millimetre grid: x, y in 0 .. MaxBox/2 and
\* width, height in 1/2 .. MaxBox/2.
IouBoxes ==
    {BBoxMM(Rat(x, 2), Rat(y, 2), Rat(w, 2), Rat(h, 2))
       : x, y \in 0 .. MaxBox, w, h \in 1 .. MaxBox}

InitCalculateIou ==
    /\ op = "calculate_iou"
    /\ pc = "start"
    /\ args \in [bbox1 : IouBoxes, bbox2 : IouBoxes]
    /\ ret = NoRet
    /\ runs = <<>>
    /\ disk = NoDisk
    /\ cli = NoCli
    /\ detection_json = [kind |-> "missing"]
    /\ image_dir = [exists |-> FALSE, files |-> {}, unreadable |-> {}]
    /\ pdf = [kind |-> "missing"]
    /\ detector_out = <<>>
    /\ page_i = 0
    /\ results = <<>>
    /\ detections = <<>>

CallCalculateIou ==
    /\ op = "calculate_iou"
    /\ pc = "start"
    /\ ret' = [kind |-> "float", value |-> calculate_iou(args.bbox1, args.bbox2)]
    /\ pc' = "returned"
    /\ UNCHANGED <<runs, disk, cli>>
    /\ UNCHANGED <<op, args, detection_json, image_dir, pdf, detector_out,
                   page_i, results, detections>>

\* The page sizes check_bbox_within_page is called with, on the grid of
\* IouBoxes: 1/2 .. (MaxBox + 1)/2 mm each way.
PageDims == {Rat(k, 2) : k \in 1 .. MaxBox + 1}

InitCheckBBoxWithinPage ==
    /\ op = "check_bbox_within_page"
    /\ pc = "start"
    /\ args \in [bbox : IouBoxes, page_width_mm : PageDims, page_height_mm : PageDims]
    /\ ret = NoRet
    /\ runs = <<>>
    /\ disk = NoDisk
    /\ cli = NoCli
    /\ detection_json = [kind |-> "missing"]
    /\ image_dir = [exists |-> FALSE, files |-> {}, unreadable |-> {}]
    /\ pdf = [kind |-> "missing"]
    /\ detector_out = <<>>
    /\ page_i = 0
    /\ results = <<>>
    /\ detections = <<>>

CallCheckBBoxWithinPage ==
    /\ op = "check_bbox_within_page"
    /\ pc = "start"
    /\ ret' = [kind |-> "bool",
               value |-> check_bbox_within_page(args.bbox, args.page_width_mm,
                                                args.page_height_mm)]
    /\ pc' = "returned"
    /\ UNCHANGED <<runs, disk, cli>>
    /\ UNCHANGED <<op, args, detection_json, image_dir, pdf, detector_out,
                   page_i, results, detections>>

\* Boxes for the overlap check, 1 mm wide: at x = 0, 1/2 and 1, full height
\* (1 mm) or half height. Pairs of them are equal (IoU 1), nested (1/2),
\* shifted by half a width (1/3 or 1/5), touching along an edge (0).
OverlapBoxes ==
    {BBoxMM(Rat(x, 2), FromInt(0), FromInt(1), Rat(h, 2)) : x \in 0 .. 2, h \in 1 .. 2}

\* Lists of at most MaxList placeholders; the ids follow the position.
PlaceholderListsOver(boxes) ==
    UNION {{[i \in 1 .. k |-> Placeholder(PlaceholderIds[i], b[i], FromInt(1))]
               : b \in [1 .. k -> boxes]}
           : k \in 0 .. MaxList}

\* The thresholds passed: the default 0.1, values some pair's IoU equals
\* (0, 1/3, 1/2) and 1.
IouThresholds == {FromInt(0), Rat(1, 10), Rat(1, 3), Rat(1, 2), FromInt(1)}

InitCheckPlaceholdersOverlap ==
    /\ op = "check_placeholders_overlap"
    /\ pc = "start"
    /\ args \in [placeholders : PlaceholderListsOver(OverlapBoxes),
                  iou_threshold : IouThresholds]
    /\ ret = NoRet
    /\ runs = <<>>
    /\ disk = NoDisk
    /\ cli = NoCli
    /\ detection_json = [kind |-> "missing"]
    /\ image_dir = [exists |-> FALSE, files |-> {}, unreadable |-> {}]
    /\ pdf = [kind |-> "missing"]
    /\ detector_out = <<>>
    /\ page_i = 0
    /\ results = <<>>
    /\ detections = <<>>

CallCheckPlaceholdersOverlap ==
    /\ op = "check_placeholders_overlap"
    /\ pc = "start"
    /\ ret' = [kind |-> "bool",
               value |-> check_placeholders_overlap(args.placeholders,
                                                    args.iou_threshold)]
    /\ pc' = "returned"
    /\ UNCHANGED <<runs, disk, cli>>
    /\ UNCHANGED <<op, args, detection_json, image_dir, pdf, detector_out,
                   page_i, results, detections>>

----------------------------------------------------------------------------
\* rendering.apply_calibration

CalibrationData(scale_factor_x, scale_factor_y, offset_x, offset_y) ==
    [printer_name |-> "test_printer", paper_type |-> "A4",
     scale_factor_x |-> scale_factor_x, scale_factor_y |-> scale_factor_y,
     offset_mm |-> [x |-> offset_x, y |-> offset_y], notes |-> ""]

\* apply_calibration with the height scaled by scale_factor_x.
apply_calibration_one_scale(bbox_mm, calibration) ==
    [x |-> RatAdd(RatMul(bbox_mm.x, calibration.scale_factor_x), calibration.offset_mm.x),
     y |-> RatAdd(RatMul(bbox_mm.y, calibration.scale_factor_y), calibration.offset_mm.y),
     width |-> RatMul(bbox_mm.width, calibration.scale_factor_x),
     height |-> RatMul(bbox_mm.height, calibration.scale_factor_x)]

apply_calibration(bbox_mm, calibration) ==
    [x |-> RatAdd(RatMul(bbox_mm.x, calibration.scale_factor_x), calibration.offset_mm.x),
     y |-> RatAdd(RatMul(bbox_mm.y, calibration.scale_factor_y), calibration.offset_mm.y),
     width |-> RatMul(bbox_mm.width, calibration.scale_factor_x),
     height |-> RatMul(bbox_mm.height, calibration.scale_factor_y)]

\* Scale factors around 1 and offsets around 0, as a calibration measures.
ScaleFactors == {FromInt(1), Rat(101, 100), Rat(49, 50)}
Offsets == {FromInt(0), Rat(1, 2), Rat(-3, 10)}

Calibrations ==
    {CalibrationData(sx, sy, ox, oy) : sx, sy \in ScaleFactors, ox, oy \in Offsets}

\* Target boxes of a layout (the dict form of BBoxMM).
TargetBoxes ==
    {BBoxMM(x, y, w, h) : x \in {FromInt(0), FromInt(20)},
                          y \in {FromInt(0), FromInt(40)},
                          w \in {FromInt(80), Rat(41, 2)},
                          h \in {FromInt(60)}}

InitApplyCalibration ==
    /\ op = "apply_calibration"
    /\ pc = "start"
    /\ args \in [bbox_mm : TargetBoxes, calibration : Calibrations]
    /\ ret = NoRet
    /\ runs = <<>>
    /\ disk = NoDisk
    /\ cli = NoCli
    /\ detection_json = [kind |-> "missing"]
    /\ image_dir = [exists |-> FALSE, files |-> {}, unreadable |-> {}]
    /\ pdf = [kind |-> "missing"]
    /\ detector_out = <<>>
    /\ page_i = 0
    /\ results = <<>>
    /\ detections = <<>>

\* The call builds a new dict; bbox_mm and calibration are only read.
CallApplyCalibration ==
    /\ op = "apply_calibration"
    /\ pc = "start"
    /\ ret' = [kind |-> "dict",
               value |-> apply_calibration(args.bbox_mm, args.calibration)]
    /\ pc' = "returned"
    /\ UNCHANGED <<runs, disk, cli>>
    /\ UNCHANGED <<op, args, detection_json, image_dir, pdf, detector_out,
                   page_i, results, detections>>

----------------------------------------------------------------------------
\* Construction of the Pydantic models from keyword arguments.

\* No file, directory or PDF is involved in the behaviour.
NoFiles ==
    /\ detection_json = [kind |-> "missing"]
    /\ image_dir = [exists |-> FALSE, files |-> {}, unreadable |-> {}]
    /\ pdf = [kind |-> "missing"]
    /\ detector_out = <<>>
    /\ page_i = 0
    /\ results = <<>>
    /\ detections = <<>>

\* As many placeholders as a record may hold.
FullList == [i \in 1 .. MAX_PLACEHOLDERS_PER_PAGE |-> PlaceholderAt(i)]

\* Keyword arguments of BBoxMM(...): coordinates and sizes on both sides of
\* the Field constraints.
BBoxMMArgs ==
    {BBoxMM(x, y, w, h) : x, y \in {Rat(-1, 2), FromInt(0), FromInt(20)},
                          w, h \in {FromInt(-1), FromInt(0), Rat(1, 2), FromInt(80)}}

\* Keyword arguments of Placeholder(...): the box already constructed, or
\* given as data that violates BBoxMM.
PlaceholderArgs ==
    {Placeholder("page_001_ph_01", b, c)
       : b \in {BBoxMM(FromInt(20), FromInt(40), FromInt(80), FromInt(60)),
                BBoxMM(FromInt(20), FromInt(40), FromInt(0), FromInt(60)),
                BBoxMM(FromInt(-1), FromInt(40), FromInt(80), FromInt(60))},
         c \in {Rat(-1, 10), FromInt(0), Rat(9, 10), FromInt(1), Rat(11, 10)}}

\* Keyword arguments of DetectionOutput(...): those a detection file may
\* hold, a full record, and records violating one constraint each.
ConstructData ==
    DetectionData
    \cup
    {DetectionOutput(1, "test_book", SCAN_DPI, A4PageSizeMM, FullList, TRUE,
                     "2025-01-15T10:30:00"),
     DetectionOutput(-1, "test_book", SCAN_DPI, A4PageSizeMM, <<PlaceholderAt(1)>>,
                     TRUE, "2025-01-15T10:30:00"),
     DetectionOutput(1, "test_book", 0, A4PageSizeMM, <<PlaceholderAt(1)>>,
                     TRUE, "2025-01-15T10:30:00"),
     DetectionOutput(1, "test_book", -300, A4PageSizeMM, <<PlaceholderAt(1)>>,
                     TRUE, "2025-01-15T10:30:00")}
    \cup
    {DetectionOutput(1, "test_book", SCAN_DPI, A4PageSizeMM, <<PlaceholderAt(1), p>>,
                     TRUE, "2025-01-15T10:30:00")
       : p \in PlaceholderArgs}

\* validation.DetectionOutput

InitConstruct ==
    /\ op = "DetectionOutput"
    /\ pc = "start"
    /\ args \in ConstructData
    /\ ret = NoRet
    /\ runs = <<>>
    /\ disk = NoDisk
    /\ cli = NoCli
    /\ detection_json = [kind |-> "missing"]
    /\ image_dir = [exists |-> FALSE, files |-> {}, unreadable |-> {}]
    /\ pdf = [kind |-> "missing"]
    /\ detector_out = <<>>
    /\ page_i = 0
    /\ results = <<>>
    /\ detections = <<>>

ConstructDetectionOutput ==
    /\ op = "DetectionOutput"
    /\ pc = "start"
    /\ ret' = IF DetectionOutputValid(args)
              THEN [kind |-> "DetectionOutput", record |-> args]
              ELSE Raise("ValidationError", "DetectionOutput")
    /\ pc' = IF ret'.kind = "raise" THEN "raised" ELSE "returned"
    /\ UNCHANGED <<runs, disk, cli>>
    /\ UNCHANGED <<op, args, detection_json, image_dir, pdf, detector_out,
                   page_i, results, detections>>

\* validation.BBoxMM, constructed from keyword arguments.
InitConstructBBoxMM ==
    /\ op = "BBoxMM"
    /\ pc = "start"
    /\ args \in BBoxMMArgs
    /\ ret = NoRet
    /\ runs = <<>>
    /\ disk = NoDisk
    /\ cli = NoCli
    /\ NoFiles

ConstructBBoxMM ==
    /\ op = "BBoxMM"
    /\ pc = "start"
    /\ ret' = IF BBoxMMValid(args)
              THEN [kind |-> "BBoxMM", record |-> args]
              ELSE Raise("ValidationError", "BBoxMM")
    /\ pc' = IF ret'.kind = "raise" THEN "raised" ELSE "returned"
    /\ UNCHANGED <<runs, disk, cli>>
    /\ UNCHANGED <<op, args, detection_json, image_dir, pdf, detector_out,
                   page_i, results, detections>>

\* validation.Placeholder, constructed from keyword arguments.
InitConstructPlaceholder ==
    /\ op = "Placeholder"
    /\ pc = "start"
    /\ args \in PlaceholderArgs
    /\ ret = NoRet
    /\ runs = <<>>
    /\ disk = NoDisk
    /\ cli = NoCli
    /\ NoFiles

ConstructPlaceholder ==
    /\ op = "Placeholder"
    /\ pc = "start"
    /\ ret' = IF PlaceholderValid(args)
              THEN [kind |-> "Placeholder", record |-> args]
              ELSE Raise("ValidationError", "Placeholder")
    /\ pc' = IF ret'.kind = "raise" THEN "raised" ELSE "returned"
    /\ UNCHANGED <<runs, disk, cli>>
    /\ UNCHANGED <<op, args, detection_json, image_dir, pdf, detector_out,
                   page_i, results, detections>>

----------------------------------------------------------------------------
\* detection.detect_placeholders_in_pdf

\* A placeholder whose box leaves an A4 page on the right.
OutsidePlaceholder ==
    Placeholder("page_001_ph_01",
                BBoxMM(FromInt(150), FromInt(250), FromInt(80), FromInt(60)),
                Rat(9, 10))

\* A placeholder whose box overlaps that of PlaceholderAt(1) (IoU 0.40).
OverlappingPlaceholder ==
    Placeholder("page_001_ph_02",
                BBoxMM(FromInt(10), FromInt(45), FromInt(20), FromInt(20)),
                Rat(9, 10))

\* What a detector may return for a page: lists of constructed Placeholder
\* objects (DoclingDetector returns the empty list).
DetectorOutputs ==
    {<<>>,
     <<PlaceholderAt(1)>>,
     <<PlaceholderAt(1), PlaceholderAt(2)>>,
     <<OutsidePlaceholder>>,
     <<PlaceholderAt(1), OverlappingPlaceholder>>,
     OverfullList}

\* Pixel size of an A4 page rasterized at SCAN_DPI.
A4WidthPx == 4961
A4HeightPx == 7016

Pdfs ==
    {[kind |-> "missing"], [kind |-> "corrupt"]}
    \cup {[kind |-> "pdf", pages |-> n] : n \in 1 .. MaxPages}

PdfPages(f) == IF f.kind = "pdf" THEN f.pages ELSE 0

\* page_size_mm of a page: px_to_mm of the rasterized size.
PageSizeMM ==
    [width |-> px_to_mm(FromInt(A4WidthPx), SCAN_DPI),
     height |-> px_to_mm(FromInt(A4HeightPx), SCAN_DPI)]

InitDetect ==
    /\ op = "detect_placeholders_in_pdf"
    /\ pc = "start"
    /\ args = [book_id |-> "test_book"]
    /\ ret = NoRet
    /\ runs = <<>>
    /\ disk = NoDisk
    /\ cli = NoCli
    /\ detection_json = [kind |-> "missing"]
    /\ image_dir = [exists |-> FALSE, files |-> {}, unreadable |-> {}]
    /\ pdf \in Pdfs
    /\ detector_out \in [1 .. PdfPages(pdf) -> DetectorOutputs]
    /\ page_i = 0
    /\ results = <<>>
    /\ detections = <<>>

\* detect_placeholders_in_pdf is running: called by itself, or by the
\* detect command.
DetectCalled ==
    \/ op = "detect_placeholders_in_pdf"
    \/ cli.kind = "cli" /\ cli.phase = "detect" /\ cli.pc = "call"

\* 1. rasterize_pdf: raises for a missing or unreadable PDF.
RasterizePdf ==
    /\ DetectCalled
    /\ pc = "start"
    /\ IF pdf.kind = "missing"
       THEN /\ pc' = "raised"
            /\ ret' = Raise("FileNotFoundError", "PDF not found")
            /\ page_i' = page_i
       ELSE IF pdf.kind = "corrupt"
       THEN /\ pc' = "raised"
            /\ ret' = Raise("RuntimeError", "Failed to open PDF")
            /\ page_i' = page_i
       ELSE /\ pc' = "loop"
            /\ ret' = ret
            /\ page_i' = 1
    /\ UNCHANGED <<runs, disk, cli>>
    /\ UNCHANGED <<op, args, detection_json, image_dir, pdf, detector_out,
                   results, detections>>

\* Steps 3 and 4 for one page: the record as constructed with
\* validation_passed = True, then the flag as the try/except sets it.
validated_detection(detection) ==
    IF DetectionOutputValid(detection)
    THEN [detection EXCEPT !.validation_passed = TRUE]
    ELSE [detection EXCEPT !.validation_passed = FALSE]

\* 2.-5. One iteration of the loop over pages_metadata.
DetectPage ==
    /\ DetectCalled
    /\ pc = "loop"
    /\ page_i <= PdfPages(pdf)
    /\ LET placeholders == detector_out[page_i]
           detection == DetectionOutput(page_i, args.book_id, SCAN_DPI, PageSizeMM,
                            placeholders, TRUE, "2025-01-15T10:30:00")
       IN  IF ~DetectionOutputValid(detection)
           THEN /\ pc' = "raised"
                /\ ret' = Raise("ValidationError", "DetectionOutput")
                /\ UNCHANGED <<page_i, results, detections>>
           ELSE /\ detections' =
                      [p \in DOMAIN detections \cup {page_i} |->
                          IF p = page_i THEN validated_detection(detection)
                          ELSE detections[p]]
                /\ results' = Append(results, validated_detection(detection))
                /\ page_i' = page_i + 1
                /\ UNCHANGED <<pc, ret>>
    /\ UNCHANGED <<runs, disk, cli>>
    /\ UNCHANGED <<op, args, detection_json, image_dir, pdf, detector_out>>

\* return results
DetectReturn ==
    /\ DetectCalled
    /\ pc = "loop"
    /\ page_i > PdfPages(pdf)
    /\ pc' = "returned"
    /\ ret' = [kind |-> "list", items |-> results]
    /\ UNCHANGED <<runs, disk, cli>>
    /\ UNCHANGED <<op, args, detection_json, image_dir, pdf, detector_out,
                   page_i, results, detections>>

----------------------------------------------------------------------------
\* rendering.render_pdf and what it reads.

\* config.PAPER_TYPES: the page size of each paper type.
PAPER_TYPES ==
    [p \in {"A4", "7x10_photo"} |->
        IF p = "A4"
        THEN [width_mm |-> FromInt(210), height_mm |-> FromInt(297)]
        ELSE [width_mm |-> Rat(1778, 10), height_mm |-> FromInt(254)]]

\* The paper types a caller may pass: those of the table and another one.
PaperTypeArgs == {"A4", "7x10_photo", "A5"}

\* A paper type check that lets every name pass.
paper_type_known_always(paper_type) == TRUE

\* paper_type in PAPER_TYPES
paper_type_known(paper_type) == paper_type \in DOMAIN PAPER_TYPES

\* reportlab.lib.units.mm: points per millimetre, 72 / 25.4.
reportlab_mm == Rat(720, 254)

\* mm_to_pdf_coords without the flip of the y axis.
mm_to_pdf_coords_no_flip(x_mm, y_mm, page_height_mm) ==
    <<RatMul(x_mm, Rat(2834, 1000)), RatMul(y_mm, Rat(2834, 1000))>>

\* mm_to_pdf_coords: (x_mm * 2.834, (page_height_mm - y_mm) * 2.834)
mm_to_pdf_coords(x_mm, y_mm, page_height_mm) ==
    <<RatMul(x_mm, Rat(2834, 1000)),
      RatMul(RatSub(page_height_mm, y_mm), Rat(2834, 1000))>>

\* The resolutions, pixel counts and lengths the conversions are called
\* with: the scan and print resolutions, screen resolutions and 1 dpi; an
\* empty, a small and an A4-sized extent.
ConversionDpis == {1, 72, PRINT_DPI, SCAN_DPI}
PixelValues == {FromInt(0), FromInt(1), FromInt(3), FromInt(7), FromInt(2480)}
MillimetreValues == {FromInt(0), Rat(1, 2), Rat(254, 10), FromInt(210)}

InitPxToMm ==
    /\ op = "px_to_mm"
    /\ pc = "start"
    /\ args \in [px : PixelValues, dpi : ConversionDpis]
    /\ ret = NoRet
    /\ runs = <<>>
    /\ disk = NoDisk
    /\ cli = NoCli
    /\ detection_json = [kind |-> "missing"]
    /\ image_dir = [exists |-> FALSE, files |-> {}, unreadable |-> {}]
    /\ pdf = [kind |-> "missing"]
    /\ detector_out = <<>>
    /\ page_i = 0
    /\ results = <<>>
    /\ detections = <<>>

InitMmToPx ==
    /\ op = "mm_to_px"
    /\ pc = "start"
    /\ args \in [mm : MillimetreValues, dpi : ConversionDpis]
    /\ ret = NoRet
    /\ runs = <<>>
    /\ disk = NoDisk
    /\ cli = NoCli
    /\ detection_json = [kind |-> "missing"]
    /\ image_dir = [exists |-> FALSE, files |-> {}, unreadable |-> {}]
    /\ pdf = [kind |-> "missing"]
    /\ detector_out = <<>>
    /\ page_i = 0
    /\ results = <<>>
    /\ detections = <<>>

\* px_to_mm(px, dpi)
CallPxToMm ==
    /\ op = "px_to_mm"
    /\ pc = "start"
    /\ ret' = [kind |-> "float",
               value |-> px_to_mm_binary64(ToFloat(args.px), args.dpi)]
    /\ pc' = "returned"
    /\ UNCHANGED <<runs, disk, cli>>
    /\ UNCHANGED <<op, args, detection_json, image_dir, pdf, detector_out,
                   page_i, results, detections>>

\* mm_to_px(mm, dpi)
CallMmToPx ==
    /\ op = "mm_to_px"
    /\ pc = "start"
    /\ ret' = [kind |-> "float",
               value |-> mm_to_px_binary64(ToFloat(args.mm), args.dpi)]
    /\ pc' = "returned"
    /\ UNCHANGED <<runs, disk, cli>>
    /\ UNCHANGED <<op, args, detection_json, image_dir, pdf, detector_out,
                   page_i, results, detections>>

\* The caller converts the result back: mm_to_px(px_to_mm(px, dpi), dpi)
CallMmToPxBack ==
    /\ op = "px_to_mm"
    /\ pc = "returned"
    /\ ret' = [kind |-> "float", value |-> ret.value,
               back |-> mm_to_px_binary64(ret.value, args.dpi)]
    /\ pc' = "converted_back"
    /\ UNCHANGED <<runs, disk, cli>>
    /\ UNCHANGED <<op, args, detection_json, image_dir, pdf, detector_out,
                   page_i, results, detections>>

\* px_to_mm(mm_to_px(mm, dpi), dpi)
CallPxToMmBack ==
    /\ op = "mm_to_px"
    /\ pc = "returned"
    /\ ret' = [kind |-> "float", value |-> ret.value,
               back |-> px_to_mm_binary64(ret.value, args.dpi)]
    /\ pc' = "converted_back"
    /\ UNCHANGED <<runs, disk, cli>>
    /\ UNCHANGED <<op, args, detection_json, image_dir, pdf, detector_out,
                   page_i, results, detections>>

\* The arguments mm_to_pdf_coords is called with: the page heights of
\* PAPER_TYPES and a page of 1/2 mm; points at the left edge and inside, at
\* the top edge, inside, and at the bottom edge of one of the pages.
PdfPageHeights == {PAPER_TYPES[p].height_mm : p \in DOMAIN PAPER_TYPES} \cup {Rat(1, 2)}
PdfXs == {FromInt(0), Rat(1, 2), FromInt(10), FromInt(105)}
PdfYs == {FromInt(0), Rat(1, 4), FromInt(20)} \cup PdfPageHeights

InitMmToPdfCoords ==
    /\ op = "mm_to_pdf_coords"
    /\ pc = "start"
    /\ args \in [x_mm : PdfXs, y_mm : PdfYs, page_height_mm : PdfPageHeights]
    /\ ret = NoRet
    /\ runs = <<>>
    /\ disk = NoDisk
    /\ cli = NoCli
    /\ detection_json = [kind |-> "missing"]
    /\ image_dir = [exists |-> FALSE, files |-> {}, unreadable |-> {}]
    /\ pdf = [kind |-> "missing"]
    /\ detector_out = <<>>
    /\ page_i = 0
    /\ results = <<>>
    /\ detections = <<>>

CallMmToPdfCoords ==
    /\ op = "mm_to_pdf_coords"
    /\ pc = "start"
    /\ ret' = [kind |-> "tuple",
               value |-> mm_to_pdf_coords(args.x_mm, args.y_mm, args.page_height_mm)]
    /\ pc' = "returned"
    /\ UNCHANGED <<runs, disk, cli>>
    /\ UNCHANGED <<op, args, detection_json, image_dir, pdf, detector_out,
                   page_i, results, detections>>

\* rendering.render_pdf: target_width_px = int(crop_rect["width"] * scale_factor)
ScaledSize(crop_size, scale_factor) ==
    RatTrunc(RatMul(FromInt(crop_size), scale_factor))

\* The profiles a calibration file may hold.
RenderCalibrations ==
    {CalibrationData(FromInt(1), FromInt(1), FromInt(0), FromInt(0)),
     CalibrationData(Rat(101, 100), Rat(49, 50), Rat(1, 2), Rat(-3, 10))}

\* printer_calibration_{printer_name}_{paper_type}.json: absent, not JSON,
\* JSON that is not an object, an object without one of the keys, an object
\* whose offset_mm is not an object, an object with a string for a scale
\* factor or for an offset, bytes that are not text, or a profile.
CalibrationFiles ==
    {[kind |-> k] : k \in {"missing", "invalid_json", "not_object", "missing_keys",
                           "offset_not_object", "scale_not_number",
                           "offset_not_number", "not_text"}}
    \cup {[kind |-> "profile", data |-> c] : c \in RenderCalibrations}

None == [kind |-> "None"]

\* load_calibration: None for a missing file and for what its except clause
\* catches (JSONDecodeError, KeyError, TypeError); otherwise the parsed object
\* as it is, CalibrationData being a TypedDict that checks no value.  The
\* UnicodeDecodeError of read_text is not among the exceptions caught.
load_calibration(file) ==
    IF file.kind = "missing" THEN None
    ELSE IF file.kind = "not_text" THEN Raise("UnicodeDecodeError", "read_text")
    ELSE IF file.kind = "invalid_json" THEN None
    ELSE IF file.kind \in {"not_object", "offset_not_object"} THEN None
    ELSE IF file.kind = "missing_keys" THEN None
    ELSE IF file.kind \in {"scale_not_number", "offset_not_number"}
    THEN [kind |-> "CalibrationData", numeric |-> FALSE]
    ELSE [kind |-> "CalibrationData", numeric |-> TRUE, data |-> file.data]

ImageA == [stem |-> 1, ext |-> 2]
ImageB == [stem |-> 2, ext |-> 2]

\* The layout create_layout writes for a page with the given placeholders
\* and candidate images.
PageLayout(page, placeholders, files, scaling_mode) ==
    create_layout(
        [kind |-> "json",
         data |-> DetectionOutput(page, "test_book", SCAN_DPI, A4PageSizeMM,
                                  placeholders, TRUE, "2025-01-15T10:30:00")],
        [exists |-> TRUE, files |-> files, unreadable |-> {}],
        scaling_mode, PRINT_DPI)

\* Layouts of two pages: without images, with one and with two images; the
\* placeholder ids are unique within a page, and page 2 has one layout that
\* uses an id of page 1 and one that does not.
RenderLayouts ==
    {PageLayout(1, <<>>, {ImageA}, "fill"),
     PageLayout(1, <<PlaceholderAt(1)>>, {ImageA}, "fill"),
     PageLayout(1, <<PlaceholderAt(1), PlaceholderAt(2)>>, {ImageA, ImageB}, "fill"),
     PageLayout(2, <<PlaceholderAt(1)>>, {ImageB}, "fill"),
     PageLayout(2, <<PlaceholderAt(2)>>, {ImageB}, "fit")}

\* The layout JSON file: absent, not JSON, or a layout.
LayoutFiles ==
    {[kind |-> "missing"], [kind |-> "invalid_json"]}
    \cup {[kind |-> "json", data |-> l] : l \in RenderLayouts}

\* A file system directory as a function from names to contents.
Put(f, k, v) == [x \in DOMAIN f \cup {k} |-> IF x = k THEN v ELSE f[x]]
Remove(f, k) == [x \in DOMAIN f \ {k} |-> f[x]]

\* output_path_obj.parent / f"temp_{placeholder_id}.jpg"; every output path
\* of the model has the same parent directory.
TempPath(placeholder_id) == <<"temp_", placeholder_id, ".jpg">>

\* A call render_pdf(layout_json_path, paper_type, output_path, printer_name)
\* before its first statement.
Run(layout_file, paper_type, output_path, printer_name) ==
    [layout_file |-> layout_file, paper_type |-> paper_type,
     output_path |-> output_path, printer_name |-> printer_name,
     pc |-> "start", i |-> 0, calibration |-> [kind |-> "unloaded"],
     page_height_mm |-> FromInt(0), canvas |-> <<>>, temp_path |-> <<>>,
     ret |-> NoRet]

RunRaise(run, error, detail) ==
    [run EXCEPT !.pc = "raised", !.ret = Raise(error, detail)]

\* Lines 125-155: the layout JSON, the paper type, the calibration, the
\* output directory and the canvas.
RenderStart(r) ==
    /\ r \in DOMAIN runs
    /\ runs[r].pc = "start"
    /\ LET run == runs[r]
       IN  IF run.layout_file.kind = "missing"
           THEN /\ runs' = [runs EXCEPT ![r] =
                               RunRaise(run, "FileNotFoundError", "Layout JSON not found")]
                /\ disk' = disk
           ELSE IF run.layout_file.kind = "invalid_json"
           THEN /\ runs' = [runs EXCEPT ![r] =
                               RunRaise(run, "JSONDecodeError", "json.loads")]
                /\ disk' = disk
           ELSE IF ~paper_type_known(run.paper_type)
           THEN /\ runs' = [runs EXCEPT ![r] =
                               RunRaise(run, "KeyError",
                                        <<"Unknown paper type", run.paper_type>>)]
                /\ disk' = disk
           ELSE IF run.paper_type \notin DOMAIN PAPER_TYPES
           THEN \* PAPER_TYPES[paper_type] of line 137, for a missing key
                /\ runs' = [runs EXCEPT ![r] =
                               RunRaise(run, "KeyError", <<"", run.paper_type>>)]
                /\ disk' = disk
           ELSE IF load_calibration(disk.calibration_file).kind = "raise"
           THEN /\ runs' = [runs EXCEPT ![r] =
                               [run EXCEPT
                                  !.pc = "raised",
                                  !.ret = load_calibration(disk.calibration_file)]]
                /\ disk' = disk
           ELSE /\ runs' = [runs EXCEPT ![r] =
                               [run EXCEPT
                                  !.page_height_mm = PAPER_TYPES[run.paper_type].height_mm,
                                  !.calibration = load_calibration(disk.calibration_file),
                                  !.pc = "loop", !.i = 1]]
                /\ disk' = [disk EXCEPT !.out_dir = TRUE]
    /\ UNCHANGED <<op, pc, args, ret, detection_json, image_dir, pdf,
                   detector_out, page_i, results, detections, cli>>

\* Lines 158-189: the source image is opened, cropped, resized and saved as
\* the temporary JPEG.
RenderOpen(r) ==
    /\ r \in DOMAIN runs
    /\ runs[r].pc = "loop"
    /\ runs[r].i <= Len(runs[r].layout_file.data.positioned_images)
    /\ LET run == runs[r]
           positioned_image == run.layout_file.data.positioned_images[run.i]
           crop_rect == positioned_image.transform.crop_rect_px
           scale_factor == positioned_image.transform.scale_factor
           target_width_px == ScaledSize(crop_rect.width, scale_factor)
           target_height_px == ScaledSize(crop_rect.height, scale_factor)
           temp_path == TempPath(positioned_image.placeholder_id)
       IN  IF positioned_image.source_image \notin disk.source_images
           THEN /\ runs' = [runs EXCEPT ![r] =
                               RunRaise(run, "FileNotFoundError", "Source image not found")]
                /\ disk' = disk
           ELSE IF target_width_px <= 0 \/ target_height_px <= 0
           THEN /\ runs' = [runs EXCEPT ![r] =
                               RunRaise(run, "ValueError", "height and width must be > 0")]
                /\ disk' = disk
           ELSE /\ runs' = [runs EXCEPT ![r] =
                               [run EXCEPT !.temp_path = temp_path, !.pc = "draw"]]
                /\ disk' = [disk EXCEPT !.temps =
                               Put(disk.temps, temp_path,
                                   [source_image |-> positioned_image.source_image,
                                    crop_rect_px |-> crop_rect,
                                    size |-> <<target_width_px, target_height_px>>])]
    /\ UNCHANGED <<op, pc, args, ret, detection_json, image_dir, pdf,
                   detector_out, page_i, results, detections, cli>>

\* Lines 191-214: the calibration is applied to the target box and the
\* temporary JPEG is read and placed on the canvas.
RenderDraw(r) ==
    /\ r \in DOMAIN runs
    /\ runs[r].pc = "draw"
    /\ LET run == runs[r]
           positioned_image == run.layout_file.data.positioned_images[run.i]
           target_bbox ==
               IF run.calibration.kind = "CalibrationData" /\ run.calibration.numeric
               THEN apply_calibration(positioned_image.target_bbox_mm,
                                      run.calibration.data)
               ELSE positioned_image.target_bbox_mm
           pt == mm_to_pdf_coords(target_bbox.x, target_bbox.y, run.page_height_mm)
           y_pt_bottom == RatSub(pt[2], RatMul(target_bbox.height, reportlab_mm))
       IN  IF run.calibration.kind = "CalibrationData" /\ ~run.calibration.numeric
           THEN runs' = [runs EXCEPT ![r] =
                           RunRaise(run, "TypeError", "apply_calibration")]
           ELSE IF run.temp_path \notin DOMAIN disk.temps
           THEN runs' = [runs EXCEPT ![r] =
                           RunRaise(run, "OSError", "Cannot open resource")]
           ELSE runs' = [runs EXCEPT ![r] =
                           [run EXCEPT
                              !.canvas = Append(run.canvas,
                                  [image |-> disk.temps[run.temp_path],
                                   bbox_mm |-> target_bbox,
                                   x_pt |-> pt[1], y_pt_bottom |-> y_pt_bottom,
                                   width_pt |-> RatMul(target_bbox.width, reportlab_mm),
                                   height_pt |-> RatMul(target_bbox.height, reportlab_mm)]),
                              !.pc = "unlink"]]
    /\ UNCHANGED <<op, pc, args, ret, detection_json, image_dir, pdf,
                   detector_out, page_i, results, detections, cli, disk>>

\* A loop body that leaves the temporary JPEG where it is.
RenderUnlinkKeepingTemp(r) ==
    /\ r \in DOMAIN runs
    /\ runs[r].pc = "unlink"
    /\ runs' = [runs EXCEPT ![r] = [runs[r] EXCEPT !.i = runs[r].i + 1, !.pc = "loop"]]
    /\ UNCHANGED <<op, pc, args, ret, detection_json, image_dir, pdf,
                   detector_out, page_i, results, detections, cli, disk>>

\* Line 217: temp_path.unlink()
RenderUnlink(r) ==
    /\ r \in DOMAIN runs
    /\ runs[r].pc = "unlink"
    /\ LET run == runs[r]
       IN  IF run.temp_path \notin DOMAIN disk.temps
           THEN /\ runs' = [runs EXCEPT ![r] =
                               RunRaise(run, "FileNotFoundError", "unlink")]
                /\ disk' = disk
           ELSE /\ runs' = [runs EXCEPT ![r] =
                               [run EXCEPT !.i = run.i + 1, !.pc = "loop"]]
                /\ disk' = [disk EXCEPT !.temps = Remove(disk.temps, run.temp_path)]
    /\ UNCHANGED <<op, pc, args, ret, detection_json, image_dir, pdf,
                   detector_out, page_i, results, detections, cli>>

\* Line 220: c.save() writes the PDF.
RenderSave(r) ==
    /\ r \in DOMAIN runs
    /\ runs[r].pc = "loop"
    /\ runs[r].i > Len(runs[r].layout_file.data.positioned_images)
    /\ LET run == runs[r]
       IN  /\ runs' = [runs EXCEPT ![r] =
                          [run EXCEPT !.pc = "returned", !.ret = None]]
           /\ disk' = [disk EXCEPT !.pdfs = Put(disk.pdfs, run.output_path, run.canvas)]
    /\ UNCHANGED <<op, pc, args, ret, detection_json, image_dir, pdf,
                   detector_out, page_i, results, detections, cli>>

\* The files of a rendering: the calibration file of the printer and paper,
\* the source images present, whether the output directory exists, the
\* temporary images and the PDFs in it, and the layout JSON files by page.
Disk(calibration_file, source_images, out_dir) ==
    [calibration_file |-> calibration_file, source_images |-> source_images,
     out_dir |-> out_dir, temps |-> <<>>, pdfs |-> <<>>, layouts |-> <<>>]

\* output/{book_id}/page_NNNN.pdf
OutputPath(page) == <<"page_", page, ".pdf">>

Page1Layouts == {l \in LayoutFiles : l.kind = "json" /\ l.data.page = 1}
Page2Layouts == {l \in LayoutFiles : l.kind = "json" /\ l.data.page = 2}

\* One call of render_pdf on any layout file, paper type and calibration
\* file, or two calls at a time, for page 1 and for page 2, that write to
\* two PDFs of one output directory.
InitRender ==
    /\ op = "render_pdf"
    /\ pc = "start"
    /\ ret = NoRet
    /\ cli = NoCli
    /\ detection_json = [kind |-> "missing"]
    /\ image_dir = [exists |-> FALSE, files |-> {}, unreadable |-> {}]
    /\ pdf = [kind |-> "missing"]
    /\ detector_out = <<>>
    /\ page_i = 0
    /\ results = <<>>
    /\ detections = <<>>
    /\ \/ /\ args = [workers |-> 1]
          /\ \E l \in LayoutFiles, p \in PaperTypeArgs :
                runs = <<Run(l, p, OutputPath(1), "test_printer")>>
          /\ \E c \in CalibrationFiles, o \in BOOLEAN,
                   im \in {{ImageA, ImageB}, {ImageA}} :
                disk = Disk(c, im, o)
       \/ /\ args = [workers |-> 2]
          /\ \E l1 \in Page1Layouts, l2 \in Page2Layouts :
                runs = <<Run(l1, "A4", OutputPath(1), "test_printer"),
                         Run(l2, "A4", OutputPath(2), "test_printer")>>
          /\ \E c \in {f \in CalibrationFiles : f.kind \in {"missing", "profile"}} :
                disk = Disk(c, {ImageA, ImageB}, TRUE)

Workers == {1, 2}

----------------------------------------------------------------------------
\* cli.py: the commands detect, layout, render and pipeline.

\* The phases of the pipeline command, in the order of its try block.
Phases == <<"detect", "layout", "render">>

\* A pipeline that goes on to the next phase whatever the last one did.
after_phase_ignoring_errors(phase, raised) ==
    IF phase = "detect" THEN "layout"
    ELSE IF phase = "layout" THEN "render"
    ELSE "complete"

\* pipeline, lines 232-249: what follows a phase that returned or raised.
after_phase(phase, raised) ==
    IF raised THEN "failed"
    ELSE IF phase = "detect" THEN "layout"
    ELSE IF phase = "layout" THEN "render"
    ELSE "complete"

\* A command about to run, with its options and the detection JSON files
\* found on disk when it starts (by page number).
Cli(command, phase, options, detection_dir) ==
    [kind |-> "cli", command |-> command, phase |-> phase, pc |-> "start",
     options |-> options, detection_dir |-> detection_dir,
     files |-> <<>>, i |-> 0, attempted |-> <<>>,
     started |-> <<phase>>, finished |-> <<>>,
     complete_reported |-> FALSE, exit_status |-> -1, error |-> NoRet]

\* The command body of the current phase ends: a command run by itself
\* exits, the pipeline goes on as its try block says.
PhaseEnd(c, error) ==
    LET raised == error.kind = "raise"
        outcome == IF raised THEN "raised" ELSE "returned"
        next == IF c.command = "pipeline" THEN after_phase(c.phase, raised)
                ELSE IF raised THEN "failed" ELSE "complete"
    IN  IF next \in {"layout", "render"}
        THEN [c EXCEPT !.finished = Append(c.finished, outcome),
                       !.phase = next, !.pc = "start",
                       !.started = Append(c.started, next),
                       !.error = IF raised THEN error ELSE c.error,
                       !.files = <<>>, !.i = 0, !.attempted = <<>>]
        ELSE [c EXCEPT !.finished = Append(c.finished, outcome),
                       !.pc = "exited",
                       !.error = IF raised THEN error ELSE c.error,
                       !.complete_reported = (c.command = "pipeline" /\ next = "complete"),
                       !.exit_status = IF next = "complete" THEN 0 ELSE 1]

\* The elements of a set of page numbers in ascending order: the order of
\* sorted(dir.glob("page_*.json")) for zero-padded page numbers.
RECURSIVE SortedPages(_)
SortedPages(S) ==
    IF S = {} THEN <<>>
    ELSE LET m == CHOOSE x \in S : \A y \in S : x <= y
         IN  <<m>> \o SortedPages(S \ {m})

\* detections/{book_id}/page_*.json: the files found when the command
\* started and those detect_placeholders_in_pdf has written since.
DetectionListing ==
    LET pages == SortedPages(DOMAIN detections \cup DOMAIN cli.detection_dir)
    IN  [k \in 1 .. Len(pages) |->
            [page |-> pages[k],
             content |-> IF pages[k] \in DOMAIN detections
                         THEN [kind |-> "json", data |-> detections[pages[k]]]
                         ELSE cli.detection_dir[pages[k]]]]

\* layout: the exceptions its loop catches (FileNotFoundError; ValueError,
\* of which json.JSONDecodeError and pydantic's ValidationError are
\* subclasses).
LayoutCaught == {"FileNotFoundError", "ValueError", "JSONDecodeError", "ValidationError"}

\* layout, lines 83-97: the detection files are listed.
LayoutCommandStart ==
    /\ cli.kind = "cli" /\ cli.phase = "layout" /\ cli.pc = "start"
    /\ IF DetectionListing = <<>>
       THEN cli' = PhaseEnd(cli, Raise("ClickException", "No detections found"))
       ELSE cli' = [cli EXCEPT !.files = DetectionListing, !.i = 1, !.pc = "loop"]
    /\ UNCHANGED <<op, pc, args, ret, detection_json, image_dir, pdf,
                   detector_out, page_i, results, detections, runs, disk>>

\* layout, lines 100-120: one page of the loop.
LayoutCommandPage ==
    /\ cli.kind = "cli" /\ cli.phase = "layout" /\ cli.pc = "loop"
    /\ cli.i <= Len(cli.files)
    /\ LET file == cli.files[cli.i]
           layout_data == create_layout(file.content, image_dir,
                                        cli.options.scaling_mode,
                                        cli.options.print_dpi)
           c == [cli EXCEPT !.attempted = Append(cli.attempted, file.page)]
       IN  IF layout_data.kind # "raise"
           THEN /\ disk' = [disk EXCEPT !.layouts =
                               Put(disk.layouts, file.page,
                                   [kind |-> "json", data |-> layout_data])]
                /\ cli' = [c EXCEPT !.i = cli.i + 1]
           ELSE IF layout_data.error \in LayoutCaught
           THEN /\ disk' = disk
                /\ cli' = [c EXCEPT !.i = cli.i + 1]
           ELSE /\ disk' = disk
                /\ cli' = PhaseEnd(c, layout_data)
    /\ UNCHANGED <<op, pc, args, ret, detection_json, image_dir, pdf,
                   detector_out, page_i, results, detections, runs>>

\* layout, lines 122-123: the loop is over.
LayoutCommandReturn ==
    /\ cli.kind = "cli" /\ cli.phase = "layout" /\ cli.pc = "loop"
    /\ cli.i > Len(cli.files)
    /\ cli' = PhaseEnd(cli, None)
    /\ UNCHANGED <<op, pc, args, ret, detection_json, image_dir, pdf,
                   detector_out, page_i, results, detections, runs, disk>>

\* A detection JSON file of page p as the layout command may find it: not
\* JSON, a record without placeholders, a record with one placeholder, or a
\* record that violates the schema.
DetectionFileOf(k, p) ==
    IF k = "invalid_json" THEN [kind |-> "invalid_json"]
    ELSE [kind |-> "json",
          data |-> DetectionOutput(p, "test_book", SCAN_DPI, A4PageSizeMM,
                       IF k = "empty" THEN <<>> ELSE <<PlaceholderAt(1)>>, TRUE,
                       IF k = "bad_schema" THEN "not-a-timestamp"
                       ELSE "2025-01-15T10:30:00")]

\* detections/{book_id}: up to MaxBatch pages.
DetectionDirs ==
    UNION {{[p \in 1 .. n |-> DetectionFileOf(ks[p], p)]
              : ks \in [1 .. n -> {"invalid_json", "empty", "one", "bad_schema"}]}
           : n \in 0 .. MaxBatch}

\* The image directory of a command: missing, or holding a.jpg, readable
\* or not.
CliImageDirs ==
    {[exists |-> FALSE, files |-> {}, unreadable |-> {}],
     [exists |-> TRUE, files |-> {ImageA}, unreadable |-> {}],
     [exists |-> TRUE, files |-> {ImageA}, unreadable |-> {ImageA}]}

\* layout BOOK_ID --image-dir ... --scaling-mode ... --print-dpi ...
InitLayoutCommand ==
    /\ op = "layout"
    /\ pc = "start"
    /\ args = <<>>
    /\ ret = NoRet
    /\ runs = <<>>
    /\ disk = Disk([kind |-> "missing"], {ImageA}, FALSE)
    /\ \E d \in DetectionDirs, m \in {"fill", "fit"}, dpi \in {PRINT_DPI, 0} :
          cli = Cli("layout", "layout", [scaling_mode |-> m, print_dpi |-> dpi], d)
    /\ detection_json = [kind |-> "missing"]
    /\ image_dir \in CliImageDirs
    /\ pdf = [kind |-> "missing"]
    /\ detector_out = <<>>
    /\ page_i = 0
    /\ results = <<>>
    /\ detections = <<>>

\* layouts/{book_id}/page_*.json, in the order of sorted().
LayoutListing ==
    LET pages == SortedPages(DOMAIN disk.layouts)
    IN  [k \in 1 .. Len(pages) |->
            [page |-> pages[k], content |-> disk.layouts[pages[k]]]]

\* render: the exceptions its loop catches (FileNotFoundError, KeyError;
\* ValueError, of which json.JSONDecodeError and UnicodeDecodeError are
\* subclasses).
RenderCaught ==
    {"FileNotFoundError", "KeyError", "ValueError", "JSONDecodeError",
     "UnicodeDecodeError"}

\* render, lines 142-156: the layout files are listed and the output
\* directory is made.
RenderCommandStart ==
    /\ cli.kind = "cli" /\ cli.phase = "render" /\ cli.pc = "start"
    /\ IF LayoutListing = <<>>
       THEN /\ cli' = PhaseEnd(cli, Raise("ClickException", "No layouts found"))
            /\ disk' = disk
       ELSE /\ cli' = [cli EXCEPT !.files = LayoutListing, !.i = 1, !.pc = "loop"]
            /\ disk' = [disk EXCEPT !.out_dir = TRUE]
    /\ UNCHANGED <<op, pc, args, ret, detection_json, image_dir, pdf,
                   detector_out, page_i, results, detections, runs>>

\* render, lines 158-164: render_pdf is called for the next page.
RenderCommandPage ==
    /\ cli.kind = "cli" /\ cli.phase = "render" /\ cli.pc = "loop"
    /\ cli.i <= Len(cli.files)
    /\ LET file == cli.files[cli.i]
       IN  /\ runs' = <<Run(file.content, cli.options.paper_type,
                            OutputPath(file.page), cli.options.printer)>>
           /\ cli' = [cli EXCEPT !.attempted = Append(cli.attempted, file.page),
                                 !.pc = "page"]
    /\ UNCHANGED <<op, pc, args, ret, detection_json, image_dir, pdf,
                   detector_out, page_i, results, detections, disk>>

\* render, lines 164-167: render_pdf has returned, or raised an exception
\* that the except clause catches or lets through.
RenderCommandPageDone ==
    /\ cli.kind = "cli" /\ cli.phase = "render" /\ cli.pc = "page"
    /\ runs[1].pc \in {"returned", "raised"}
    /\ IF runs[1].pc = "returned" \/ runs[1].ret.error \in RenderCaught
       THEN cli' = [cli EXCEPT !.i = cli.i + 1, !.pc = "loop"]
       ELSE cli' = PhaseEnd(cli, runs[1].ret)
    /\ runs' = <<>>
    /\ UNCHANGED <<op, pc, args, ret, detection_json, image_dir, pdf,
                   detector_out, page_i, results, detections, disk>>

\* render, lines 169-170: the loop is over.
RenderCommandReturn ==
    /\ cli.kind = "cli" /\ cli.phase = "render" /\ cli.pc = "loop"
    /\ cli.i > Len(cli.files)
    /\ cli' = PhaseEnd(cli, None)
    /\ UNCHANGED <<op, pc, args, ret, detection_json, image_dir, pdf,
                   detector_out, page_i, results, detections, runs, disk>>

\* layouts/{book_id}: up to MaxBatch pages, each file not JSON or a layout
\* of its page.
LayoutFilesOf(p) ==
    {[kind |-> "invalid_json"]}
    \cup {l \in LayoutFiles : l.kind = "json" /\ l.data.page = p}

LayoutDirs ==
    UNION {{d \in [1 .. n -> LayoutFiles] : \A p \in 1 .. n : d[p] \in LayoutFilesOf(p)}
           : n \in 0 .. MaxBatch}

\* The calibration files of a command: none, a profile, or an object with
\* a string for a scale factor.
CliCalibrationFiles ==
    {f \in CalibrationFiles :
        \/ f.kind \in {"missing", "scale_not_number"}
        \/ f.kind = "profile" /\ f.data.scale_factor_x # FromInt(1)}

\* render BOOK_ID --paper-type ... --printer ...
InitRenderCommand ==
    /\ op = "render"
    /\ pc = "start"
    /\ args = <<>>
    /\ ret = NoRet
    /\ runs = <<>>
    /\ \E c \in CliCalibrationFiles, im \in {{ImageA, ImageB}, {ImageA}},
           d \in LayoutDirs :
          disk = [Disk(c, im, FALSE) EXCEPT !.layouts = d]
    /\ \E p \in {"A4", "A5"} :
          cli = Cli("render", "render",
                    [paper_type |-> p, printer |-> "test_printer"], <<>>)
    /\ detection_json = [kind |-> "missing"]
    /\ image_dir = [exists |-> FALSE, files |-> {}, unreadable |-> {}]
    /\ pdf = [kind |-> "missing"]
    /\ detector_out = <<>>
    /\ page_i = 0
    /\ results = <<>>
    /\ detections = <<>>

\* detect, lines 55-58: the detector is made and detect_placeholders_in_pdf
\* is called.
DetectCommandStart ==
    /\ cli.kind = "cli" /\ cli.phase = "detect" /\ cli.pc = "start"
    /\ cli' = [cli EXCEPT !.pc = "call"]
    /\ UNCHANGED <<op, pc, args, ret, detection_json, image_dir, pdf,
                   detector_out, page_i, results, detections, runs, disk>>

\* detect, lines 58-62: the call is over.  The results are dicts
\* (model_dump()), so r.placeholders in the sum raises AttributeError for
\* the first of them.
DetectCommandDone ==
    /\ cli.kind = "cli" /\ cli.phase = "detect" /\ cli.pc = "call"
    /\ pc \in {"returned", "raised"}
    /\ cli' = PhaseEnd(cli,
                 IF pc = "raised" THEN ret
                 ELSE IF ret.items # <<>>
                 THEN Raise("AttributeError", "'dict' object has no attribute 'placeholders'")
                 ELSE None)
    /\ UNCHANGED <<op, pc, args, ret, detection_json, image_dir, pdf,
                   detector_out, page_i, results, detections, runs, disk>>

\* The PDF of a command (click checks that the path exists): unreadable,
\* without pages, or with one page.
CliPdfs ==
    {[kind |-> "corrupt"], [kind |-> "pdf", pages |-> 0], [kind |-> "pdf", pages |-> 1]}

\* pipeline PDF_PATH BOOK_ID --image-dir ... --paper-type ...
\* --scaling-mode ... --printer ...; DoclingDetector.detect returns the
\* empty list for every page; print_dpi takes the default of layout.
InitPipeline ==
    /\ op = "pipeline"
    /\ pc = "start"
    /\ args = [book_id |-> "test_book"]
    /\ ret = NoRet
    /\ runs = <<>>
    /\ image_dir \in CliImageDirs
    /\ \E c \in {f \in CliCalibrationFiles : f.kind # "profile"} :
          disk = Disk(c, image_dir.files, FALSE)
    /\ \E d \in DetectionDirs, m \in {"fill", "fit"}, p \in {"A4", "A5"} :
          cli = Cli("pipeline", "detect",
                    [scaling_mode |-> m, print_dpi |-> PRINT_DPI,
                     paper_type |-> p, printer |-> "test_printer"], d)
    /\ detection_json = [kind |-> "missing"]
    /\ pdf \in CliPdfs
    /\ detector_out = [p \in 1 .. PdfPages(pdf) |-> <<>>]
    /\ page_i = 0
    /\ results = <<>>
    /\ detections = <<>>

Init ==
    \/ InitTransform
    \/ InitLayout
    \/ InitCalculateIou
    \/ InitCheckBBoxWithinPage
    \/ InitCheckPlaceholdersOverlap
    \/ InitMmToPdfCoords
    \/ InitPxToMm
    \/ InitMmToPx
    \/ InitApplyCalibration
    \/ InitConstruct
    \/ InitConstructBBoxMM
    \/ InitConstructPlaceholder
    \/ InitDetect
    \/ InitRender
    \/ InitLayoutCommand
    \/ InitRenderCommand
    \/ InitPipeline

Next ==
    \/ CallCalculateTransform
    \/ CallCreateLayout
    \/ CallCalculateIou
    \/ CallCheckBBoxWithinPage
    \/ CallCheckPlaceholdersOverlap
    \/ CallMmToPdfCoords
    \/ CallPxToMm
    \/ CallMmToPx
    \/ CallMmToPxBack
    \/ CallPxToMmBack
    \/ CallApplyCalibration
    \/ ConstructDetectionOutput
    \/ ConstructBBoxMM
    \/ ConstructPlaceholder
    \/ RasterizePdf
    \/ DetectPage
    \/ DetectReturn
    \/ \E r \in Workers : RenderStart(r)
    \/ \E r \in Workers : RenderOpen(r)
    \/ \E r \in Workers : RenderDraw(r)
    \/ \E r \in Workers : RenderUnlink(r)
    \/ \E r \in Workers : RenderSave(r)
    \/ LayoutCommandStart
    \/ LayoutCommandPage
    \/ LayoutCommandReturn
    \/ RenderCommandStart
    \/ RenderCommandPage
    \/ RenderCommandPageDone
    \/ RenderCommandReturn
    \/ DetectCommandStart
    \/ DetectCommandDone

Spec == Init /\ [][Next]_vars

----------------------------------------------------------------------------
\* Claims about calculate_transform.

TransformDone == op = "calculate_transform" /\ pc \in {"returned", "raised"}

PositiveDims ==
    /\ args.source_width_px > 0
    /\ args.source_height_px > 0
    /\ args.target_width_px.n > 0
    /\ args.target_height_px.n > 0

\* target / source on each axis, for nonzero source dimensions.
ArgScaleX == RatDiv(args.target_width_px, FromInt(args.source_width_px))
ArgScaleY == RatDiv(args.target_height_px, FromInt(args.source_height_px))

\* C2: in fill mode with positive dimensions calculate_transform returns
\* scale = max(target_w/source_w, target_h/source_h), crop_w =
\* floor(target_w/scale), crop_h = floor(target_h/scale), crop_x =
\* floor((source_w - crop_w)/2), crop_y = floor((source_h - crop_h)/2); source
\* 800x600 into target 400x400 gives scale 2/3 and crop (100, 0, 600, 600).
C2_FillFormula ==
    (TransformDone /\ args.mode = "fill" /\ PositiveDims) =>
        LET scale == IF RatLT(ArgScaleX, ArgScaleY) THEN ArgScaleY ELSE ArgScaleX
            crop_w == RatFloor(RatDiv(args.target_width_px, scale))
            crop_h == RatFloor(RatDiv(args.target_height_px, scale))
        IN  /\ pc = "returned"
            /\ ret.kind = "Transform"
            /\ ret.scale_factor = scale
            /\ ret.crop_rect_px =
                 [x |-> RatFloor(Rat(args.source_width_px - crop_w, 2)),
                  y |-> RatFloor(Rat(args.source_height_px - crop_h, 2)),
                  width |-> crop_w, height |-> crop_h]
            /\ (/\ args.source_width_px = 800 /\ args.source_height_px = 600
                /\ args.target_width_px = FromInt(400)
                /\ args.target_height_px = FromInt(400))
               => /\ ret.scale_factor = Rat(2, 3)
                  /\ ret.crop_rect_px =
                       [x |-> 100, y |-> 0, width |-> 600, height |-> 600]

C2_Witness ==
    /\ TransformDone /\ pc = "returned" /\ args.mode = "fill"
    /\ args.source_width_px = 800 /\ args.source_height_px = 600
    /\ args.target_width_px = FromInt(400)
    /\ args.target_height_px = FromInt(400)
    /\ ret.crop_rect_px.x = 100

\* C3 as claimed: in fill mode with positive dimensions the crop rectangle
\* scaled by scale_factor equals the target exactly on both axes.
C3_ExactCover ==
    (TransformDone /\ args.mode = "fill" /\ PositiveDims) =>
        /\ pc = "returned"
        /\ RatMul(FromInt(ret.crop_rect_px.width), ret.scale_factor)
             = args.target_width_px
        /\ RatMul(FromInt(ret.crop_rect_px.height), ret.scale_factor)
             = args.target_height_px

\* How far the crop dimension, scaled, stays below the target dimension.
Shortfall(target_px, crop_size, scale_factor) ==
    RatSub(target_px, RatMul(FromInt(crop_size), scale_factor))

\* C3 amended: in fill mode with positive dimensions the scaled crop
\* rectangle never exceeds the target and falls short of it by less than
\* scale_factor (one source pixel, scaled) on each axis; the image the
\* renderer resizes to, int(crop * scale) pixels, is at most the target and
\* short of it by less than scale_factor + 1.
C3_CoverUpToOnePixel ==
    (TransformDone /\ args.mode = "fill" /\ PositiveDims) =>
        LET s == ret.scale_factor
            short_w == Shortfall(args.target_width_px, ret.crop_rect_px.width, s)
            short_h == Shortfall(args.target_height_px, ret.crop_rect_px.height, s)
            drawn_w == FromInt(ScaledSize(ret.crop_rect_px.width, s))
            drawn_h == FromInt(ScaledSize(ret.crop_rect_px.height, s))
        IN  /\ pc = "returned"
            /\ RatLE(FromInt(0), short_w) /\ RatLT(short_w, s)
            /\ RatLE(FromInt(0), short_h) /\ RatLT(short_h, s)
            /\ RatLE(drawn_w, args.target_width_px)
            /\ RatLT(RatSub(args.target_width_px, drawn_w), RatAdd(s, FromInt(1)))
            /\ RatLE(drawn_h, args.target_height_px)
            /\ RatLT(RatSub(args.target_height_px, drawn_h), RatAdd(s, FromInt(1)))

\* A fill transform whose scaled crop is strictly smaller than the target.
C3_Witness ==
    /\ TransformDone /\ pc = "returned" /\ args.mode = "fill" /\ PositiveDims
    /\ RatLT(FromInt(0),
             Shortfall(args.target_height_px, ret.crop_rect_px.height,
                       ret.scale_factor))

C5_DegenerateDimsRejected ==
    (TransformDone /\ args.mode \in {"fill", "fit"} /\ ~PositiveDims) =>
        /\ pc = "raised"
        /\ ret.kind = "raise"

----------------------------------------------------------------------------
\* Claims about create_layout.

LayoutDone == op = "create_layout" /\ pc \in {"returned", "raised"}

\* The .jpg and .jpeg files of the directory.
CandidateImages ==
    IF image_dir.exists
    THEN {f \in image_dir.files : Ext(f) \in {"jpg", "jpeg"}}
    ELSE {}

\* The detection file holds a record that satisfies the schema.
RecordParsable ==
    /\ detection_json.kind = "json"
    /\ DetectionOutputValid(detection_json.data)

Min(a, b) == IF a < b THEN a ELSE b

\* C1: create_layout, called with a supported scaling mode for a detection
\* record with P placeholders and a directory with N >= 1 candidate images
\* (all decodable), returns exactly min(P, N) positioned images; entry i
\* carries the id and the unchanged millimetre box of the i-th placeholder and
\* the path of the i-th candidate image in ascending path order; surplus
\* placeholders or images are dropped without an error.
C1_OrdinalPairing ==
    (/\ LayoutDone /\ RecordParsable
     /\ args.scaling_mode \in {"fill", "fit"}
     /\ CandidateImages # {}
     /\ image_dir.unreadable = {}) =>
        LET phs == detection_json.data.placeholders
            n == Min(Len(phs), Cardinality(CandidateImages))
        IN  /\ pc = "returned"
            /\ ret.kind = "LayoutOutput"
            /\ Len(ret.positioned_images) = n
            /\ \A i \in 1 .. n :
                 LET e == ret.positioned_images[i]
                 IN  /\ e.placeholder_id = phs[i].id
                     /\ e.target_bbox_mm = phs[i].bbox_mm
                     /\ e.source_image \in CandidateImages
                     /\ Cardinality({f \in CandidateImages :
                                        PathLT(f, e.source_image)}) = i - 1

\* Three placeholders paired with the first three of four images.
C1_Witness ==
    /\ LayoutDone /\ pc = "returned"
    /\ Len(detection_json.data.placeholders) = 3
    /\ Cardinality(CandidateImages) = 4
    /\ Len(ret.positioned_images) = 3
    /\ detection_json.data.placeholders[1] = PlaceholderAt(2)

\* C6: a scaling mode other than "fill" or "fit" never yields a result:
\* calculate_transform raises the error naming the mode, and create_layout,
\* given a parsable detection record and decodable candidate images, raises
\* that error instead of returning a layout (also with zero placeholders).
C6_UnsupportedModeRejected ==
    /\ (TransformDone /\ args.mode \notin {"fill", "fit"}) =>
          ret = Raise("ValueError", <<"Unsupported scaling mode", args.mode>>)
    /\ (/\ LayoutDone /\ RecordParsable
        /\ args.scaling_mode \notin {"fill", "fit"}
        /\ CandidateImages # {}
        /\ image_dir.unreadable = {}) =>
          ret = Raise("ValueError",
                      <<"Unsupported scaling mode", args.scaling_mode>>)

----------------------------------------------------------------------------
\* Claims about detect_placeholders_in_pdf and DetectionOutput.

DetectRunning == op = "detect_placeholders_in_pdf"

\* The pages whose loop iteration has ended, normally or by an exception.
PagesHandled ==
    IF pc = "raised" /\ page_i >= 1 THEN 1 .. page_i
    ELSE IF page_i >= 1 THEN 1 .. (page_i - 1)
    ELSE {}

\* A placeholder list with a box outside the page or a pair overlapping
\* with IoU above 0.1.
SemanticallyInvalid(placeholders) ==
    \/ \E i \in 1 .. Len(placeholders) :
          ~check_bbox_within_page(placeholders[i].bbox_mm, PageSizeMM.width,
                                  PageSizeMM.height)
    \/ ~check_placeholders_overlap(placeholders, Rat(1, 10))

\* C7: every page whose detected placeholders contain a box outside the page
\* or a pair with IoU above 0.1 is persisted with validation_passed = false,
\* without an exception; none is persisted with validation_passed = true.
C7_SemanticFailureRecorded ==
    DetectRunning =>
        \A p \in PagesHandled :
            SemanticallyInvalid(detector_out[p]) =>
                /\ pc # "raised"
                /\ p \in DOMAIN detections
                /\ detections[p].validation_passed = FALSE

\* C8: a page whose detector output fails record validation (more than 6
\* placeholders) is not fatal: no exception, a record with validation_passed
\* = false is written for it, and every later page is processed and persisted.
C8_RecordValidationNotFatal ==
    DetectRunning =>
        /\ ~(pc = "raised" /\ ret.error = "ValidationError")
        /\ \A p \in PagesHandled :
              Len(detector_out[p]) > MAX_PLACEHOLDERS_PER_PAGE =>
                  /\ p \in DOMAIN detections
                  /\ detections[p].validation_passed = FALSE
        /\ (pc \in {"returned", "raised"} /\ pdf.kind = "pdf") =>
              DOMAIN detections = 1 .. pdf.pages

\* C9: for every page on which the detector returns no placeholders, the
\* record returned and persisted has validation_passed = false.
C9_EmptyPageNotPassed ==
    DetectRunning =>
        /\ \A p \in DOMAIN detections :
              Len(detections[p].placeholders) = 0 =>
                  detections[p].validation_passed = FALSE
        /\ \A k \in 1 .. Len(results) :
              Len(results[k].placeholders) = 0 =>
                  results[k].validation_passed = FALSE

\* C10: a DetectionOutput with an empty placeholder sequence constructs only
\* with validation_passed = false; empty with validation_passed = true is
\* rejected, so no constructed record is empty and passed.
C10_EmptyOnlyWhenFailed ==
    (op = "DetectionOutput" /\ pc \in {"returned", "raised"}) =>
        /\ (Len(args.placeholders) = 0 /\ args.validation_passed) => pc = "raised"
        /\ pc = "returned" =>
              ~(Len(ret.record.placeholders) = 0 /\ ret.record.validation_passed)

----------------------------------------------------------------------------
\* Claims about the errors of create_layout.

\* C14: for every detection record that satisfies the schema (also one
\* without placeholders), create_layout raises the "No images found" error
\* and returns no layout whenever the image directory holds no .jpg or
\* .jpeg file or does not exist; whatever the scaling mode and whatever
\* else the directory holds, nothing is opened or computed before.
C14_NoCandidateImages ==
    (LayoutDone /\ RecordParsable /\ CandidateImages = {}) =>
        /\ pc = "raised"
        /\ ret = Raise("ValueError", "No images found")

\* The directory exists and holds files, none of them a .jpg or .jpeg, and
\* the record has placeholders.
C14_Witness ==
    /\ LayoutDone /\ RecordParsable /\ CandidateImages = {}
    /\ image_dir.exists /\ image_dir.files # {}
    /\ detection_json.data.placeholders # <<>>
    /\ ret = Raise("ValueError", "No images found")

\* C15: whenever the detection record is missing, is not JSON or violates
\* the record schema, create_layout raises one and the same error, the one
\* that reports a detection record not found, and returns no layout.
C15_OneRecordNotFoundError ==
    (LayoutDone /\ ~RecordParsable) =>
        /\ pc = "raised"
        /\ ret.kind = "raise"
        /\ ret.error = "FileNotFoundError"

----------------------------------------------------------------------------
\* Claims about the construction of the Pydantic models.

ConstructDone(model) == op = model /\ pc \in {"returned", "raised"}

\* The constraints the schema states for a box, a placeholder and a record.
BoxConstraints(b) ==
    /\ RatLE(FromInt(0), b.x)
    /\ RatLE(FromInt(0), b.y)
    /\ RatLT(FromInt(0), b.width)
    /\ RatLT(FromInt(0), b.height)

PlaceholderConstraints(p) ==
    /\ BoxConstraints(p.bbox_mm)
    /\ RatLE(FromInt(0), p.confidence)
    /\ RatLE(p.confidence, FromInt(1))

RecordConstraints(d) ==
    /\ Len(d.placeholders) <= 6
    /\ d.page >= 1
    /\ d.scan_dpi > 0
    /\ d.detected_at \in ISOTimestamps
    /\ \A i \in 1 .. Len(d.placeholders) : PlaceholderConstraints(d.placeholders[i])

\* A construction raises a validation error when a constraint is violated,
\* and otherwise returns the object with the values it was given.
Rejected == pc = "raised" /\ ret.kind = "raise" /\ ret.error = "ValidationError"
Accepted == pc = "returned" /\ ret.kind # "raise" /\ ret.record = args

----------------------------------------------------------------------------
\* Claims about calculate_iou.

IouDone == op = "calculate_iou" /\ pc \in {"returned", "raised"}

\* The interiors of the two boxes share no point: they are apart, or they
\* touch along an edge or at a corner.
ZeroAreaIntersection(a, b) ==
    \/ RatLE(RatAdd(a.x, a.width), b.x)
    \/ RatLE(RatAdd(b.x, b.width), a.x)
    \/ RatLE(RatAdd(a.y, a.height), b.y)
    \/ RatLE(RatAdd(b.y, b.height), a.y)

----------------------------------------------------------------------------
\* Claims about apply_calibration.

CalibrationDone == op = "apply_calibration" /\ pc \in {"returned", "raised"}

IdentityProfile(c) ==
    /\ c.scale_factor_x = FromInt(1)
    /\ c.scale_factor_y = FromInt(1)
    /\ c.offset_mm.x = FromInt(0)
    /\ c.offset_mm.y = FromInt(0)

\* The returned box, by the four formulas.
CalibrationFormula ==
    CalibrationDone =>
        LET b == args.bbox_mm
            c == args.calibration
        IN  /\ pc = "returned"
            /\ ret.value.x = RatAdd(RatMul(b.x, c.scale_factor_x), c.offset_mm.x)
            /\ ret.value.y = RatAdd(RatMul(b.y, c.scale_factor_y), c.offset_mm.y)
            /\ ret.value.width = RatMul(b.width, c.scale_factor_x)
            /\ ret.value.height = RatMul(b.height, c.scale_factor_y)
            /\ IdentityProfile(c) => ret.value = b

\* C17: apply_calibration returns the box x' = x*scale_x + offset_x,
\* y' = y*scale_y + offset_y, width' = width*scale_x, height' =
\* height*scale_y, and leaves the box and the profile it was given as they
\* were; with scale factors 1 and offsets 0 the result is the box it was
\* given.
C17_PureCalibration ==
    /\ []CalibrationFormula
    /\ [][op = "apply_calibration" => args' = args]_vars

\* A profile with two different scale factors and an offset was applied.
C17_Witness ==
    /\ CalibrationDone
    /\ args.calibration.scale_factor_x # args.calibration.scale_factor_y
    /\ args.calibration.offset_mm.x # FromInt(0)
    /\ ret.value # args.bbox_mm

----------------------------------------------------------------------------
\* Claims about render_pdf.

\* The behaviour is one call of render_pdf, and the call has begun.
OneRender == op = "render_pdf" /\ args.workers = 1 /\ runs[1].pc # "start"

\* The paper type is none of the geometry table (A4 and 7x10_photo).
UnknownPaper == runs[1].paper_type \notin {"A4", "7x10_photo"}

\* C18: for a layout file that exists and parses, an unknown paper type
\* makes render_pdf raise the error "Unknown paper type: <type>"; the
\* calibration has not been looked up then, and the call creates no output
\* directory, no temporary image and no PDF.
C18_UnknownPaperType ==
    /\ [](OneRender /\ runs[1].layout_file.kind = "json" /\ UnknownPaper =>
            /\ runs[1].pc = "raised"
            /\ runs[1].ret = Raise("KeyError",
                                   <<"Unknown paper type", runs[1].paper_type>>)
            /\ runs[1].calibration.kind = "unloaded"
            /\ disk.temps = <<>>
            /\ disk.pdfs = <<>>)
    /\ [][/\ op = "render_pdf" /\ args.workers = 1
          /\ runs[1].layout_file.kind = "json" /\ UnknownPaper
          => disk' = disk]_vars

\* The call has raised for a layout with an image, with a calibration
\* profile on file and no output directory yet.
C18_Witness ==
    /\ OneRender /\ UnknownPaper
    /\ runs[1].layout_file.kind = "json"
    /\ runs[1].layout_file.data.positioned_images # <<>>
    /\ disk.calibration_file.kind = "profile"
    /\ ~disk.out_dir
    /\ runs[1].pc = "raised"

\* Layout, paper type and source images give render_pdf no reason to fail.
RenderInputsGood ==
    /\ runs[1].layout_file.kind = "json"
    /\ runs[1].paper_type \in {"A4", "7x10_photo"}
    /\ \A k \in 1 .. Len(runs[1].layout_file.data.positioned_images) :
          runs[1].layout_file.data.positioned_images[k].source_image
              \in disk.source_images

\* C16: when the calibration file is missing or malformed (not JSON, not an
\* object, keys missing, values of the wrong type), load_calibration
\* returns no profile without raising, and render_pdf completes, drawing
\* every image in its uncalibrated target box.
C16_CalibrationNeverFatal ==
    (OneRender /\ RenderInputsGood /\ disk.calibration_file.kind # "profile") =>
        /\ runs[1].calibration = None
        /\ runs[1].pc # "raised"
        /\ \A k \in 1 .. Len(runs[1].canvas) :
              runs[1].canvas[k].bbox_mm =
                  runs[1].layout_file.data.positioned_images[k].target_bbox_mm

\* C13: two calls of render_pdf at a time, for two pages and two PDFs of
\* one output directory, do not disturb each other, whatever the placeholder
\* ids of the two pages: neither call raises, and the PDF of each holds the
\* images of its own layout, in order.
C13_ConcurrentRendersIndependent ==
    (op = "render_pdf" /\ args.workers = 2) =>
        \A r \in DOMAIN runs :
            /\ runs[r].pc # "raised"
            /\ \A k \in 1 .. Len(runs[r].canvas) :
                  LET positioned_image == runs[r].layout_file.data.positioned_images[k]
                      image == runs[r].canvas[k].image
                  IN  /\ image.source_image = positioned_image.source_image
                      /\ image.crop_rect_px = positioned_image.transform.crop_rect_px
            /\ runs[r].pc = "returned" =>
                  /\ runs[r].output_path \in DOMAIN disk.pdfs
                  /\ Len(disk.pdfs[runs[r].output_path]) =
                         Len(runs[r].layout_file.data.positioned_images)

----------------------------------------------------------------------------
\* Claims about the commands of cli.py.

\* The pages of the batch the command went through, or was to go through.
BatchPages == {cli.files[k].page : k \in 1 .. Len(cli.files)}
AttemptedPages == {cli.attempted[k] : k \in 1 .. Len(cli.attempted)}

\* C12 for the layout command: whatever makes create_layout fail for a
\* page, the command goes on, and when it ends it has attempted every page
\* of the batch.
LayoutBatchIsolated ==
    (op = "layout" /\ cli.pc = "exited" /\ cli.files # <<>>) =>
        AttemptedPages = BatchPages

\* C12 for the render command.
RenderBatchIsolated ==
    (op = "render" /\ cli.pc = "exited" /\ cli.files # <<>>) =>
        AttemptedPages = BatchPages

\* C12 for detect_placeholders_in_pdf: when it ends, the loop has reached
\* the last page of the PDF.
DetectBatchIsolated ==
    (DetectRunning /\ pc \in {"returned", "raised"} /\ pdf.kind = "pdf") =>
        page_i >= PdfPages(pdf)

\* C12: in the layout command, in the render command and in the detection
\* pipeline the failure of one page, whatever its reason, does not abort
\* the batch: every remaining page is still attempted.
C12_PerPageFailuresIsolated ==
    /\ LayoutBatchIsolated
    /\ RenderBatchIsolated
    /\ DetectBatchIsolated

RaisedPhases == {k \in 1 .. Len(cli.finished) : cli.finished[k] = "raised"}

\* C19: the pipeline command starts its phases in the order detect, layout,
\* render, each one only after the one before has returned without raising;
\* once a phase has raised no later phase is started, completion is not
\* reported and the process exits with status 1.
C19_PhasesInOrder ==
    op = "pipeline" =>
        /\ \E n \in 1 .. 3 : cli.started = SubSeq(Phases, 1, n)
        /\ Len(cli.finished) \in {Len(cli.started) - 1, Len(cli.started)}
        /\ \A k \in 1 .. Len(cli.started) - 1 : cli.finished[k] = "returned"
        /\ RaisedPhases # {} =>
              /\ RaisedPhases = {Len(cli.started)}
              /\ ~cli.complete_reported
              /\ cli.pc = "exited"
              /\ cli.exit_status = 1
        /\ cli.complete_reported =>
              cli.finished = <<"returned", "returned", "returned">>
        /\ (cli.pc = "exited" /\ RaisedPhases = {}) =>
              /\ cli.complete_reported
              /\ cli.exit_status = 0

\* The render phase was started, after detect and layout had returned, and
\* raised: the process has exited with status 1.
C19_Witness ==
    /\ op = "pipeline"
    /\ cli.started = Phases
    /\ cli.finished = <<"returned", "returned", "raised">>
    /\ cli.exit_status = 1

----------------------------------------------------------------------------
\* Claims about check_placeholders_overlap and check_bbox_within_page.

OverlapDone == op = "check_placeholders_overlap" /\ pc \in {"returned", "raised"}

\* The rearrangements of a list of length n.
Permutations(n) ==
    {f \in [1 .. n -> 1 .. n] : \A a, b \in 1 .. n : a # b => f[a] # f[b]}

\* Every two different positions of the list, in either order, hold boxes
\* whose IoU is at most the threshold.
AllPairsWithin(placeholders, iou_threshold) ==
    \A i, j \in 1 .. Len(placeholders) :
        i # j => RatLE(calculate_iou(placeholders[i].bbox_mm, placeholders[j].bbox_mm),
                       iou_threshold)

\* C21: check_placeholders_overlap returns TRUE exactly when every pair of
\* different list positions has IoU <= threshold (equality is accepted); it
\* returns TRUE for lists of length 0 and 1, and every rearrangement of the
\* list gives the same result.
C21_OverlapEveryPair ==
    OverlapDone =>
        /\ pc = "returned"
        /\ ret.kind = "bool"
        /\ ret.value = AllPairsWithin(args.placeholders, args.iou_threshold)
        /\ Len(args.placeholders) <= 1 => ret.value
        /\ \A f \in Permutations(Len(args.placeholders)) :
              check_placeholders_overlap(
                  [i \in 1 .. Len(args.placeholders) |-> args.placeholders[f[i]]],
                  args.iou_threshold) = ret.value

\* Three placeholders of which only the first and the last overlap, by
\* more than the threshold: the result is FALSE; and a list accepted with a
\* pair whose IoU equals the threshold.
C21_Witness ==
    /\ OverlapDone
    /\ Len(args.placeholders) = 3
    /\ ~ret.value
    /\ RatLE(calculate_iou(args.placeholders[1].bbox_mm, args.placeholders[2].bbox_mm),
             args.iou_threshold)
    /\ RatLE(calculate_iou(args.placeholders[2].bbox_mm, args.placeholders[3].bbox_mm),
             args.iou_threshold)
    /\ RatLT(FromInt(0), args.iou_threshold)

WithinPageDone == op = "check_bbox_within_page" /\ pc \in {"returned", "raised"}

\* The right and the bottom edge of the box, in exact arithmetic.
RightEdge(b) == Rat(b.x.n * b.width.d + b.width.n * b.x.d, b.x.d * b.width.d)
BottomEdge(b) == Rat(b.y.n * b.height.d + b.height.n * b.y.d, b.y.d * b.height.d)

\* C22: check_bbox_within_page returns TRUE exactly when x >= 0, y >= 0,
\* x + width <= W and y + height <= H; a box whose edges lie on the page
\* edges, the full page included, is within.
C22_WithinPage ==
    WithinPageDone =>
        /\ pc = "returned"
        /\ ret.kind = "bool"
        /\ ret.value <=>
              /\ args.bbox.x.n >= 0
              /\ args.bbox.y.n >= 0
              /\ RightEdge(args.bbox).n * args.page_width_mm.d
                    <= args.page_width_mm.n * RightEdge(args.bbox).d
              /\ BottomEdge(args.bbox).n * args.page_height_mm.d
                    <= args.page_height_mm.n * BottomEdge(args.bbox).d
        /\ (/\ args.bbox.x.n = 0
            /\ args.bbox.y.n = 0
            /\ args.bbox.width = args.page_width_mm
            /\ args.bbox.height = args.page_height_mm) => ret.value

\* The box that is the full page is within it.
C22_Witness ==
    /\ WithinPageDone
    /\ ret.value
    /\ args.bbox.x.n = 0
    /\ args.bbox.y.n = 0
    /\ args.bbox.width = args.page_width_mm
    /\ args.bbox.height = args.page_height_mm

----------------------------------------------------------------------------
\* Claims about the conversions of coordinates.py.

PdfCoordsDone == op = "mm_to_pdf_coords" /\ pc \in {"returned", "raised"}

\* The factor the claim names: 2.834 points per millimetre.
PointsPerMM == Rat(2834, 1000)

\* C23: mm_to_pdf_coords(x_mm, y_mm, H) returns
\* (x_mm * 2.834, (H - y_mm) * 2.834): the top-left point (0, 0) goes to
\* (0, H * 2.834), the bottom-left point (0, H) goes to (0, 0), and the x
\* coordinate is the same for every page height.
C23_CoordinateFlip ==
    PdfCoordsDone =>
        /\ pc = "returned"
        /\ RatDiv(ret.value[1], PointsPerMM) = args.x_mm
        /\ RatAdd(RatDiv(ret.value[2], PointsPerMM), args.y_mm) = args.page_height_mm
        /\ (args.x_mm.n = 0 /\ args.y_mm.n = 0) =>
              /\ ret.value[1].n = 0
              /\ RatDiv(ret.value[2], PointsPerMM) = args.page_height_mm
        /\ (args.x_mm.n = 0 /\ args.y_mm = args.page_height_mm) =>
              ret.value = <<FromInt(0), FromInt(0)>>
        /\ \A H \in PdfPageHeights :
              mm_to_pdf_coords(args.x_mm, args.y_mm, H)[1] = ret.value[1]

\* The bottom-left corner of an A4 page.
C23_Witness ==
    /\ PdfCoordsDone
    /\ args.x_mm.n = 0
    /\ args.y_mm = args.page_height_mm
    /\ args.page_height_mm = FromInt(297)
    /\ ret.value = <<FromInt(0), FromInt(0)>>

RoundTripDone == op \in {"px_to_mm", "mm_to_px"} /\ pc = "converted_back"

\* The number the round trip starts from.
RoundTripInput == IF op = "px_to_mm" THEN args.px ELSE args.mm

BigDistance(a, b) == IF BigLT(a, b) THEN BigSub(b, a) ELSE BigSub(a, b)

\* The floats a, b >= 0 are at most k units in the last place apart (units
\* of the one with the smaller exponent).
WithinUlps(a, b, k) ==
    \/ a = b
    \/ /\ a.m # BigZero
       /\ b.m # BigZero
       /\ \/ a.e = b.e /\ BigLT(BigDistance(a.m, b.m), Big(k + 1))
          \/ a.e = b.e + 1 /\ BigLT(BigDistance(BigDouble(a.m), b.m), Big(k + 1))
          \/ b.e = a.e + 1 /\ BigLT(BigDistance(BigDouble(b.m), a.m), Big(k + 1))

\* C24 as stated: px_to_mm and mm_to_px are inverses for every dpi > 0,
\* mm_to_px(px_to_mm(px, dpi), dpi) = px and
\* px_to_mm(mm_to_px(mm, dpi), dpi) = mm, and both map 0 to 0.
C24_ExactRoundTrip ==
    RoundTripDone =>
        /\ ret.back = ToFloat(RoundTripInput)
        /\ RoundTripInput.n = 0 => ret.value = FloatZero

\* C24, amended: the round trip returns the number it started from up to
\* the rounding of the four float operations, at most 4 units in the last
\* place; the two functions are inverses in exact arithmetic, and both map
\* 0 to 0 exactly.
C24_RoundTripUpToRounding ==
    RoundTripDone =>
        /\ WithinUlps(ret.back, ToFloat(RoundTripInput), 4)
        /\ mm_to_px(px_to_mm(RoundTripInput, args.dpi), args.dpi) = RoundTripInput
        /\ px_to_mm(mm_to_px(RoundTripInput, args.dpi), args.dpi) = RoundTripInput
        /\ RoundTripInput.n = 0 => ret.value = FloatZero /\ ret.back = FloatZero

\* A round trip of a positive number of pixels that does not return it.
C24_Witness ==
    /\ RoundTripDone
    /\ op = "px_to_mm"
    /\ args.px.n > 0
    /\ ret.back # ToFloat(args.px)

MmToPxDone == op = "mm_to_px" /\ pc = "returned"

\* a < b for floats a, b >= 0
FloatLT(a, b) ==
    /\ b.m # BigZero
    /\ \/ a.m = BigZero
       \/ a.e < b.e
       \/ a.e = b.e /\ BigLT(a.m, b.m)

\* C25: for mm > 0, mm_to_px(mm, dpi) is strictly increasing in dpi, and
\* linear in dpi: doubling dpi doubles the pixel value.
C25_MonotoneInDpi ==
    (MmToPxDone /\ args.mm.n > 0) =>
        /\ \A dpi2 \in ConversionDpis :
              args.dpi < dpi2 =>
                  /\ FloatLT(ret.value, mm_to_px_binary64(ToFloat(args.mm), dpi2))
                  /\ RatLT(mm_to_px(args.mm, args.dpi), mm_to_px(args.mm, dpi2))
        /\ mm_to_px_binary64(ToFloat(args.mm), 2 * args.dpi)
             = FloatMul(ToFloat(FromInt(2)), ret.value)
        /\ mm_to_px(args.mm, args.dpi)
             = RatMul(FromInt(args.dpi), mm_to_px(args.mm, 1))

\* Half a millimetre at the print resolution, which the scan resolution
\* doubles.
C25_Witness ==
    /\ MmToPxDone
    /\ args.mm = Rat(1, 2)
    /\ args.dpi = PRINT_DPI
    /\ 2 * args.dpi \in ConversionDpis

----------------------------------------------------------------------------
\* C26: for an existing PDF with at least one page on which rasterization,
\* detection and persistence all succeed, the detect command ends without
\* error, and the pipeline command goes on to start the layout phase
\* instead of exiting with status 1.
DetectSucceeded ==
    /\ cli.kind = "cli"
    /\ pdf.kind = "pdf" /\ pdf.pages >= 1
    /\ Len(results) = pdf.pages
    /\ Len(cli.finished) >= 1

C26_DetectCommandCompletes ==
    DetectSucceeded =>
        /\ cli.finished[1] = "returned"
        /\ cli.error.kind # "raise"
        /\ cli.command = "pipeline" => Len(cli.started) >= 2 /\ cli.started[2] = "layout"

----------------------------------------------------------------------------
\* C27: a single call of render_pdf leaves no partial artifacts.  When it
\* has returned, or has raised FileNotFoundError for a missing layout file
\* or a missing source image, no temp_<placeholder_id>.jpg is left in the
\* output directory; a PDF exists at output_path only once it has returned;
\* and at every moment of the call at most one temporary image exists.
SingleRender == op = "render_pdf" /\ Len(runs) = 1

InputNotFound(run) ==
    /\ run.pc = "raised"
    /\ run.ret.error = "FileNotFoundError"
    /\ run.ret.detail \in {"Layout JSON not found", "Source image not found"}

C27_NoPartialArtifacts ==
    SingleRender =>
        LET run == runs[1]
        IN  /\ (run.pc = "returned" \/ InputNotFound(run)) => disk.temps = <<>>
            /\ run.pc = "returned" => DOMAIN disk.pdfs = {run.output_path}
            /\ run.pc # "returned" => disk.pdfs = <<>>
            /\ Cardinality(DOMAIN disk.temps) <= 1

\* The second image of a layout is missing: the first one was saved as a
\* temporary file, drawn and removed before the call raised.
C27_Witness ==
    /\ SingleRender
    /\ InputNotFound(runs[1])
    /\ runs[1].ret.detail = "Source image not found"
    /\ runs[1].i = 2
    /\ Len(runs[1].canvas) = 1

----------------------------------------------------------------------------
\* C28: for a layout entry made in fit mode, render_pdf draws the whole
\* source image with its aspect ratio: the drawn width/height ratio is that
\* of the resized image (the source ratio up to pixel rounding), and when
\* the source and target ratios differ the drawn image is smaller than the
\* target box on one axis.
FitDrawn(run, k) ==
    /\ k \in 1 .. Len(run.canvas)
    /\ run.layout_file.data.positioned_images[k].scaling_mode = "fit"

AspectKept(drawn) ==
    /\ drawn.image.crop_rect_px.x = 0 /\ drawn.image.crop_rect_px.y = 0
    /\ <<drawn.image.crop_rect_px.width, drawn.image.crop_rect_px.height>>
          = ImageSize(drawn.image.source_image)
    /\ RatDiv(drawn.width_pt, drawn.height_pt)
          = Rat(drawn.image.size[1], drawn.image.size[2])

Bordered(drawn) ==
    LET size == ImageSize(drawn.image.source_image)
        box_w == RatMul(drawn.bbox_mm.width, reportlab_mm)
        box_h == RatMul(drawn.bbox_mm.height, reportlab_mm)
    IN  Rat(size[1], size[2]) # RatDiv(drawn.bbox_mm.width, drawn.bbox_mm.height)
            => RatLT(drawn.width_pt, box_w) \/ RatLT(drawn.height_pt, box_h)

C28_FitKeepsAspectRatio ==
    op = "render_pdf" =>
        \A r \in DOMAIN runs : \A k \in 1 .. Len(runs[r].canvas) :
            FitDrawn(runs[r], k) =>
                AspectKept(runs[r].canvas[k]) /\ Bordered(runs[r].canvas[k])

----------------------------------------------------------------------------
\* C29: in fill mode with positive source and target dimensions the crop
\* rectangle lies inside the source image (crop_x >= 0, crop_y >= 0,
\* crop_x + crop_width <= source_w, crop_y + crop_height <= source_h) and is
\* centred: the left and right margins, and the top and bottom margins,
\* differ by at most one pixel.
FarMargin(source_px, origin, size) == source_px - (origin + size)

Centred(source_px, origin, size) ==
    /\ origin >= 0
    /\ FarMargin(source_px, origin, size) >= 0
    /\ FarMargin(source_px, origin, size) - origin \in {-1, 0, 1}

C29_CropInsideAndCentred ==
    (TransformDone /\ args.mode = "fill" /\ PositiveDims) =>
        /\ pc = "returned"
        /\ Centred(args.source_width_px, ret.crop_rect_px.x, ret.crop_rect_px.width)
        /\ Centred(args.source_height_px, ret.crop_rect_px.y, ret.crop_rect_px.height)

\* A crop narrower than the source by an odd number of pixels: the margins
\* are positive and differ by one.
C29_Witness ==
    /\ TransformDone /\ pc = "returned" /\ args.mode = "fill" /\ PositiveDims
    /\ ret.crop_rect_px.x > 0
    /\ FarMargin(args.source_width_px, ret.crop_rect_px.x, ret.crop_rect_px.width)
          = ret.crop_rect_px.x + 1

----------------------------------------------------------------------------
\* C30: for positive integer source dimensions and target dimensions of at
\* least one pixel, calculate_transform returns, in fill and in fit mode, a
\* scale_factor > 0 and a crop rectangle that is not empty: crop_width >= 1
\* and crop_height >= 1.
TargetAtLeastOnePixel ==
    /\ RatLE(FromInt(1), args.target_width_px)
    /\ RatLE(FromInt(1), args.target_height_px)

C30_CropNotEmpty ==
    (/\ TransformDone /\ args.mode \in {"fill", "fit"}
     /\ args.source_width_px > 0 /\ args.source_height_px > 0
     /\ TargetAtLeastOnePixel) =>
        /\ pc = "returned"
        /\ RatLT(FromInt(0), ret.scale_factor)
        /\ ret.crop_rect_px.width >= 1
        /\ ret.crop_rect_px.height >= 1

====
